---------------------------- MODULE Spec2Model ----------------------------
(***************************************************************************)
(* Model of PnP_PDF_Creator.py: card format geometry, grid planning,       *)
(* occupancy / outer bleed, placement, image preprocessing with its cache, *)
(* and the run driven by main().                                           *)
(*                                                                         *)
(* Lengths that the program keeps as floating point PDF points are kept    *)
(* here as integers in units of 1/200 pt, always even, so that the         *)
(* program's division by 2.0 is exact.  Millimetres of a card format are   *)
(* kept in units of 1/3000 mm (w_mmk), which represents the built-in       *)
(* formats and the INI custom format (px / 300 * 25.4 mm) exactly.         *)
(***************************************************************************)
EXTENDS Integers, Sequences, FiniteSets, TLC

VARIABLES
    \* ---- module globals of the program
    PIL,                \* TRUE iff "from PIL import Image" succeeded (Image is not None)
    CARD_FORMATS,       \* list of format dicts (INI custom format appended at start)
    CUTMARK_LEN_PT_STD, \* length of the standard / gutterfold cut marks (INI [cutmarks])
    current_format,     \* STATE["current_format"]
    POKER_W_PT, POKER_H_PT,
    INNER_W_PX, INNER_H_PX,
    BLEED_W_PX, BLEED_H_PX,
    CONVERT_CACHE,      \* _CONVERT_CACHE: cache key -> returned path
    tmp_files,          \* files in TMP_DIR: file name -> raster written there
    folder_images,      \* the image files of the card folder that are preprocessed
    quality_key,        \* main's quality_key, handed to every preprocessing call of the run
    \* ---- locals of main()
    pc,
    layout_keys, size_modes,
    pairs, include_back_pages, pairs_for_2x3,
    generation_dir,     \* TRUE once build_generation_dir has created the folder
    cfg,                \* pdfConfig.txt of the card folder: present?, and the dict read from it
    ui,                 \* prompt functions called, and quality_key / copyright_name /
                        \* version_str / out_base of main
    li, si,             \* position of the two nested generation loops
    docs,               \* documents saved so far, in order
    raised,             \* the exception that left main(), if any
    \* ---- observation of the last call of a function checked on its own
    plan,               \* result of the last grid planning call
    sheet,              \* what the last place_images_* call drew
    last_call,          \* the last preprocess_card_image_* call
    first_result        \* cache key -> path returned by the first call with that key

vars == << PIL, CARD_FORMATS, CUTMARK_LEN_PT_STD, current_format, POKER_W_PT, POKER_H_PT,
           INNER_W_PX, INNER_H_PX, BLEED_W_PX, BLEED_H_PX,
           CONVERT_CACHE, tmp_files, folder_images, quality_key,
           pc, layout_keys, size_modes, pairs, include_back_pages, pairs_for_2x3,
           generation_dir, cfg, ui, li, si, docs, raised,
           plan, sheet, last_call, first_result >>

geomVars == << current_format, POKER_W_PT, POKER_H_PT,
               INNER_W_PX, INNER_H_PX, BLEED_W_PX, BLEED_H_PX >>
cacheVars == << CONVERT_CACHE, tmp_files, folder_images, quality_key, last_call, first_result >>
mainVars == << pc, layout_keys, size_modes, pairs, include_back_pages, pairs_for_2x3,
               generation_dir, cfg, ui, li, si, docs, raised >>
gridVars == << plan, sheet >>

-----------------------------------------------------------------------------
(* Bounds of the model *)

MaxCards == 3       \* longest deck that card discovery returns
MaxCells == 9       \* most cells (cols x rows) of a sheet handed to a placement function
MaxCalls == 3       \* preprocessing calls followed in one run
MaxOuterCalls == 2
MaxDeck == 10  \* the same, in runs that mix both preprocessing functions

-----------------------------------------------------------------------------
(* Arithmetic helpers *)

Max(a, b) == IF a >= b THEN a ELSE b
Min(a, b) == IF a <= b THEN a ELSE b
Abs(a) == IF a >= 0 THEN a ELSE -a

\* Python's round(a / b) for a >= 0, b > 0: nearest integer, ties to even.
RoundDiv(a, b) ==
    LET q == a \div b
        r == a % b
    IN  IF 2 * r < b THEN q
        ELSE IF 2 * r > b THEN q + 1
        ELSE IF q % 2 = 0 THEN q ELSE q + 1

\* units (1/200 pt) of a length given in whole points
Pt(n) == n * 200

-----------------------------------------------------------------------------
(* Program constants *)

TEMPLATE_DPI == 300
BLEED_LEFT_TOP_PX == 37
BLEED_RIGHT_BOTTOM_PX == 38
OUTER_BLEED_KEEP_PX == 15
GF_FOLD_GUTTER_PT == Pt(12)
BOTTOM_Y == Pt(10)
\* CUTMARK_LEN_PT_STD as the module sets it when it is imported
DEFAULT_CUTMARK_LEN_PT_STD == Pt(5)
CUTMARK_LEN_PT_BLEED == Pt(20)

\* cm_to_pt(PRINT_SAFE_MARGIN_CM) = 0.1 * 72 / 2.54 = 2.8346 pt, as an even unit count
MARGIN_PT == 566
MARGINS_PT == [left |-> MARGIN_PT, right |-> MARGIN_PT, top |-> MARGIN_PT, bottom |-> MARGIN_PT]

\* computed once, while the module is imported
BOTTOM_RESERVED_PT == Max(BOTTOM_Y + Pt(5), DEFAULT_CUTMARK_LEN_PT_STD)
RESERVE_BOTTOM_PT == BOTTOM_RESERVED_PT
RESERVE_TOP_PT == RESERVE_BOTTOM_PT
RESERVE_LEFT_PT == 0
RESERVE_RIGHT_PT == 0
BACK_X_OFFSET_PT == 0
BACK_Y_OFFSET_PT == 0

\* reportlab page sizes: A4 = 595.2756 x 841.8898 pt, letter = 612 x 792 pt
A4_W == 119056
A4_H == 168378
LETTER_W == 122400
LETTER_H == 158400
A4 == << A4_W, A4_H >>
letter == << LETTER_W, LETTER_H >>

\* reportlab.lib.pagesizes.landscape: the longer side becomes the width
landscape(ps) == IF ps[1] < ps[2] THEN << ps[2], ps[1] >> ELSE ps

-----------------------------------------------------------------------------
(* Card formats *)

Mmk(mm10) == mm10 * 300     \* 1/3000 mm of a length given in tenths of a millimetre

BUILTIN_FORMATS ==
    << [id |-> 1, name |-> "Poker",         w_mmk |-> Mmk(635), h_mmk |-> Mmk(889)],
       [id |-> 2, name |-> "Euro",          w_mmk |-> Mmk(590), h_mmk |-> Mmk(920)],
       [id |-> 3, name |-> "Mini Euro",     w_mmk |-> Mmk(440), h_mmk |-> Mmk(680)],
       [id |-> 4, name |-> "American",      w_mmk |-> Mmk(560), h_mmk |-> Mmk(870)],
       [id |-> 5, name |-> "Mini American", w_mmk |-> Mmk(410), h_mmk |-> Mmk(630)] >>

\* _px_to_mm: (px / TEMPLATE_DPI) * 25.4 mm = px * 254 / 3000 mm
px_to_mm(px) == px * 254

\* load_custom_format_from_config: the [custom_format] section as format 6
load_custom_format_from_config(w_px, h_px) ==
    [id |-> 6, name |-> "Custom (INI)", w_mmk |-> px_to_mm(w_px), h_mmk |-> px_to_mm(h_px)]

\* [custom_format] sections tried: the default one, a wide card (few cards per
\* sheet), one too tall for Gutterfold on Letter only, one too tall on both papers
CustomFormatPx == { <<750, 1050>>, <<1250, 1500>>, <<1250, 1600>>, <<1250, 1700>> }

\* int(mm / 25.4 * 300) per axis: truncation instead of rounding
fmt_to_inner_px_trunc(w_mmk, h_mmk) == << w_mmk \div 254, h_mmk \div 254 >>

\* _fmt_to_inner_px: int(round(mm / 25.4 * 300)) per axis
fmt_to_inner_px(w_mmk, h_mmk) == << RoundDiv(w_mmk, 254), RoundDiv(h_mmk, 254) >>

\* mm / 25.4 * 72 pt, in even units of 1/200 pt
mm_to_pt(mmk) == 2 * ((mmk * 12) \div 127)

apply_card_format_bad(fmt) ==
    LET px == fmt_to_inner_px(fmt.w_mmk, fmt.h_mmk)
    IN  [ fmt |-> fmt,
          w_pt |-> mm_to_pt(fmt.w_mmk), h_pt |-> mm_to_pt(fmt.h_mmk),
          iw |-> px[1], ih |-> px[2],
          bw |-> px[1] + BLEED_LEFT_TOP_PX + BLEED_LEFT_TOP_PX,
          bh |-> px[2] + BLEED_LEFT_TOP_PX + BLEED_LEFT_TOP_PX ]

\* apply_card_format: the values it assigns to the geometry globals
apply_card_format(fmt) ==
    LET px == fmt_to_inner_px(fmt.w_mmk, fmt.h_mmk)
    IN  [ fmt |-> fmt,
          w_pt |-> mm_to_pt(fmt.w_mmk), h_pt |-> mm_to_pt(fmt.h_mmk),
          iw |-> px[1], ih |-> px[2],
          bw |-> px[1] + BLEED_LEFT_TOP_PX + BLEED_RIGHT_BOTTOM_PX,
          bh |-> px[2] + BLEED_LEFT_TOP_PX + BLEED_RIGHT_BOTTOM_PX ]

SetGeometry(g) ==
    /\ current_format' = g.fmt
    /\ POKER_W_PT' = g.w_pt
    /\ POKER_H_PT' = g.h_pt
    /\ INNER_W_PX' = g.iw
    /\ INNER_H_PX' = g.ih
    /\ BLEED_W_PX' = g.bw
    /\ BLEED_H_PX' = g.bh

\* the module-level values before any apply_card_format call
NoFormat == [id |-> 0, name |-> "None", w_mmk |-> 0, h_mmk |-> 0]
InitGeometry ==
    /\ current_format = NoFormat
    /\ POKER_W_PT = Pt(180)
    /\ POKER_H_PT = Pt(252)
    /\ BLEED_W_PX = 825
    /\ BLEED_H_PX = 1125
    /\ INNER_W_PX = 825 - BLEED_LEFT_TOP_PX - BLEED_RIGHT_BOTTOM_PX
    /\ INNER_H_PX = 1125 - BLEED_LEFT_TOP_PX - BLEED_RIGHT_BOTTOM_PX

\* the geometry globals right after apply_card_format(fmt)
GeometryIs(g) ==
    /\ current_format = g.fmt
    /\ POKER_W_PT = g.w_pt
    /\ POKER_H_PT = g.h_pt
    /\ INNER_W_PX = g.iw
    /\ INNER_H_PX = g.ih
    /\ BLEED_W_PX = g.bw
    /\ BLEED_H_PX = g.bh

-----------------------------------------------------------------------------
(* Grid layout planner *)

\* compute_grid_origin_centered_with_margins
compute_grid_origin_nores(page_w, page_h, grid_w, grid_h, margins, top_res, bottom_res, left_res, right_res) ==
    LET avail_w == page_w - margins.left - margins.right - left_res - right_res
        avail_h == page_h - margins.top - margins.bottom - top_res - bottom_res
    IN  IF avail_w <= 0 \/ avail_h <= 0
        THEN << margins.left + left_res, margins.bottom + bottom_res >>
        ELSE << margins.left + (avail_w - grid_w) \div 2,
                margins.bottom + (avail_h - grid_h) \div 2 >>

compute_grid_origin_centered_with_margins(page_w, page_h, grid_w, grid_h, margins, top_res, bottom_res, left_res, right_res) ==
    LET avail_w == page_w - margins.left - margins.right - left_res - right_res
        avail_h == page_h - margins.top - margins.bottom - top_res - bottom_res
    IN  IF avail_w <= 0 \/ avail_h <= 0
        THEN << margins.left + left_res, margins.bottom + bottom_res >>
        ELSE << margins.left + left_res + (avail_w - grid_w) \div 2,
                margins.bottom + bottom_res + (avail_h - grid_h) \div 2 >>

\* the counts without the minimum of 1
grid_counts_unfloored(avail_w, avail_h, box_w, box_h, extra) ==
    [ rows |-> (avail_h - extra) \div box_h, cols |-> avail_w \div box_w ]

\* rows = max(1, int((avail_h - extra_vertical_pt) // box_h)), cols = max(1, int(avail_w // box_w))
grid_counts(avail_w, avail_h, box_w, box_h, extra) ==
    [ rows |-> Max(1, (avail_h - extra) \div box_h), cols |-> Max(1, avail_w \div box_w) ]

\* the 1 x 1 grid anchored at the margins only, the reserves left out
fallback_grid_nores(margins, box_w, box_h, bottom_res, extra, left_res) ==
    [ cols |-> 1, rows |-> 1,
      x0 |-> margins.left,
      y0 |-> margins.bottom,
      grid_w |-> box_w, grid_h |-> box_h + extra,
      grid_top_y |-> margins.bottom + box_h + extra ]

\* "if avail_w <= 0 or avail_h <= 0: return (1, 1, ...)"
fallback_grid(margins, box_w, box_h, bottom_res, extra, left_res) ==
    [ cols |-> 1, rows |-> 1,
      x0 |-> margins.left + left_res,
      y0 |-> margins.bottom + bottom_res,
      grid_w |-> box_w, grid_h |-> box_h + extra,
      grid_top_y |-> margins.bottom + bottom_res + box_h + extra ]

\* compute_max_grid_counts (logo_path is unused by the function)
compute_max_grid_counts(page_w, page_h, box_w, box_h, margins, bottom_res, extra, left_res, right_res, top_res) ==
    LET avail_w == page_w - margins.left - margins.right - left_res - right_res
        avail_h == page_h - margins.top - margins.bottom - top_res - bottom_res
    IN  IF avail_w <= 0 \/ avail_h <= 0
        THEN fallback_grid(margins, box_w, box_h, bottom_res, extra, left_res)
        ELSE LET n == grid_counts(avail_w, avail_h, box_w, box_h, extra)
                 grid_w == n.cols * box_w
                 grid_h == n.rows * box_h + extra
                 o == compute_grid_origin_centered_with_margins(
                          page_w, page_h, grid_w, grid_h, margins,
                          top_res, bottom_res, left_res, right_res)
             IN  [ cols |-> n.cols, rows |-> n.rows, x0 |-> o[1], y0 |-> o[2],
                   grid_w |-> grid_w, grid_h |-> grid_h, grid_top_y |-> o[2] + grid_h ]

\* get_bleed_box_size_pt: POKER_*_PT * (BLEED_*_PX / INNER_*_PX), as an even unit count
get_bleed_box_size_pt(w_pt, h_pt, iw, ih, bw, bh) ==
    << 2 * ((w_pt * bw) \div (2 * iw)), 2 * ((h_pt * bh) \div (2 * ih)) >>

-----------------------------------------------------------------------------
(* Card pairs as find_card_pairs returns them: (base, front path, back path) *)

NoneImg == [kind |-> "None", card |-> 0, side |-> "-", has_bleed |-> FALSE]
File(card, side, has_bleed) == [kind |-> "file", card |-> card, side |-> side, has_bleed |-> has_bleed]

\* "p and p.exists()"
Exists(p) == p.kind = "file"

\* A folder with n cards; the cards in `backs` have a back file, and the front of
\* card `small` (0: none) is below BLEED_W_PX x BLEED_H_PX.
Deck(n, backs, small) ==
    [ i \in 1..n |->
        [ base |-> i,
          a |-> File(i, "a", i # small),
          b |-> IF i \in backs THEN File(i, "b", TRUE) ELSE NoneImg ] ]

Decks == { Deck(n, backs, small) : n \in 0..MaxCards, backs \in SUBSET (1..MaxCards), small \in 0..MaxCards }

\* find_named_image_in_folder(folder, CARDBACK_BASENAME): no file, or the shared back
SharedBacks == { NoneImg, File(0, "cardback", TRUE), File(0, "cardback", FALSE) }

\* no chunking: the whole list as one group
chunk_whole(lst, n) == << lst >>

\* chunk(lst, n)
chunk(lst, n) ==
    [ k \in 1..((Len(lst) + n - 1) \div n) |->
        SubSeq(lst, (k - 1) * n + 1, Min(k * n, Len(lst))) ]

\* analyze_card_images: too_small_bleed and the bleed-eligible pairs
analyze_card_images(prs) ==
    IF ~PIL
    THEN [ too_small_bleed |-> {}, eligible |-> << >>, skipped |-> Len(prs) ]
    ELSE LET lacks(p) == Exists(p) /\ ~p.has_bleed
             ok(pr) == ~lacks(pr.a) /\ ~lacks(pr.b)
         IN  [ too_small_bleed |->
                   { prs[j].a : j \in { i \in DOMAIN prs : lacks(prs[i].a) } }
                   \cup { prs[j].b : j \in { i \in DOMAIN prs : lacks(prs[i].b) } },
               eligible |-> SelectSeq(prs, ok),
               skipped |-> Len(prs) - Len(SelectSeq(prs, ok)) ]

-----------------------------------------------------------------------------
(* generate_pdf *)

NoError == [kind |-> "none", what |-> "", avail |-> 0, need |-> 0, layout |-> "", suffix |-> ""]

IsStandard(lk) == lk \in {"standard", "3x3", "3x4"}
IsBleed(lk) == lk \in {"bleed", "2x3", "2x5"}

\* the condition under which a chunk's back page is drawn (standard and bleed):
\* include_back_pages and any(p for p in backs if p and p.exists())
BackPageAlways(include_back, group) == include_back

BackPageNever(include_back, group) == FALSE

BackPageWanted(include_back, group) ==
    include_back /\ \E i \in DOMAIN group : Exists(group[i].b)

\* the card pages of the standard and bleed branches, in showPage order
RECURSIVE SheetPages(_, _, _)
SheetPages(chunks, k, include_back) ==
    IF k > Len(chunks) THEN << >>
    ELSE << [sheet |-> k, side |-> "a", group |-> chunks[k]] >>
         \o (IF BackPageWanted(include_back, chunks[k])
             THEN << [sheet |-> k, side |-> "b", group |-> chunks[k]] >>
             ELSE << >>)
         \o SheetPages(chunks, k + 1, include_back)

\* the card pages of the gutterfold branch: one page per chunk
GutterfoldPages(chunks) ==
    [ k \in 1..Len(chunks) |-> [sheet |-> k, side |-> "", group |-> chunks[k]] ]

\* available height of the gutterfold branch (also choose_gutterfold_orientation.available_h)
gf_available_h(pagesize) ==
    pagesize[2] - MARGINS_PT.top - MARGINS_PT.bottom - RESERVE_TOP_PT - BOTTOM_RESERVED_PT

gf_needed_h == 2 * POKER_H_PT + GF_FOLD_GUTTER_PT

\* What evaluating the raise statement of the gutterfold branch produces.  The
\* arguments of t("error_gutterfold_space", avail=avail_h, need=needed_h, ...) are
\* evaluated first, and needed_h is bound neither in generate_pdf nor at module
\* level (it is a local of choose_gutterfold_orientation): NameError.
gutterfold_space_raise(avail_h) ==
    [kind |-> "NameError", what |-> "needed_h", avail |-> 0, need |-> 0, layout |-> "", suffix |-> ""]

generate_pdf(layout_key, pagesize, prs, include_back, outer_keep) ==
    LET lk == layout_key
        page_w == pagesize[1]
        page_h == pagesize[2]
    IN  IF IsStandard(lk)
        THEN LET g == compute_max_grid_counts(page_w, page_h, POKER_W_PT, POKER_H_PT,
                          MARGINS_PT, BOTTOM_RESERVED_PT, 0,
                          RESERVE_LEFT_PT, RESERVE_RIGHT_PT, RESERVE_TOP_PT)
                 per_page == g.cols * g.rows
             IN  [ raised |-> NoError, created |-> TRUE, per_page |-> per_page,
                   pages |-> SheetPages(chunk(prs, per_page), 1, include_back) ]
        ELSE IF IsBleed(lk)
        THEN LET box == get_bleed_box_size_pt(POKER_W_PT, POKER_H_PT,
                            INNER_W_PX, INNER_H_PX, BLEED_W_PX, BLEED_H_PX)
                 g == compute_max_grid_counts(page_w, page_h, box[1], box[2],
                          MARGINS_PT, BOTTOM_RESERVED_PT, 0,
                          RESERVE_LEFT_PT, RESERVE_RIGHT_PT, RESERVE_TOP_PT)
                 per_page == g.cols * g.rows
             IN  [ raised |-> NoError, created |-> TRUE, per_page |-> per_page,
                   pages |-> SheetPages(chunk(prs, per_page), 1, include_back) ]
        ELSE IF lk = "gutterfold"
        THEN LET avail_w == page_w - MARGINS_PT.left - MARGINS_PT.right
                 avail_h == gf_available_h(pagesize)
                 cols == Max(1, avail_w \div POKER_W_PT)
             IN  IF avail_h < 2 * POKER_H_PT + GF_FOLD_GUTTER_PT
                 THEN [ raised |-> gutterfold_space_raise(avail_h), created |-> FALSE,
                        per_page |-> 0, pages |-> << >> ]
                 ELSE [ raised |-> NoError, created |-> TRUE, per_page |-> cols,
                        pages |-> GutterfoldPages(chunk(prs, cols)) ]
        ELSE [ raised |-> [kind |-> "ValueError", what |-> "Unknown layout_key",
                           avail |-> 0, need |-> 0, layout |-> "", suffix |-> ""],
               created |-> FALSE, per_page |-> 0, pages |-> << >> ]

\* the variant that always takes the landscape page
choose_gutterfold_orientation_landscape(base) == landscape(base)

\* choose_gutterfold_orientation
choose_gutterfold_orientation(base) ==
    LET ls == landscape(base)
    IN  IF gf_available_h(ls) >= gf_needed_h THEN ls
        ELSE IF gf_available_h(base) >= gf_needed_h THEN base
        ELSE IF gf_available_h(ls) >= gf_available_h(base) THEN ls ELSE base

-----------------------------------------------------------------------------
(* main() *)

\* prompt_layout_dynamic / _map_layout_value: all three layouts or a single one
LayoutChoices == { <<"standard", "bleed", "gutterfold">>, <<"standard">>, <<"bleed">>, <<"gutterfold">> }

\* prompt_pagesize_mode / _map_paper_value
PaperChoices ==
    { << [pagesize |-> A4, suffix |-> "_A4"] >>,
      << [pagesize |-> letter, suffix |-> "_Letter"] >>,
      << [pagesize |-> A4, suffix |-> "_A4"], [pagesize |-> letter, suffix |-> "_Letter"] >> }

Without(keys, drop) == SelectSeq(keys, LAMBDA k : k \notin drop)
Has(keys, wanted) == \E i \in DOMAIN keys : keys[i] \in wanted

\* ---- pdfConfig.txt.  Strings are opaque values here, so str.upper, str.lower,
\* int() and make_safe_name are given by their results on the strings the
\* configuration files below contain.

DEFAULT_QUALITY == "high"

\* a line of the file: a comment / blank line, or KEY=VALUE (both sides stripped)
CommentLine == [kind |-> "comment", k |-> "", v |-> ""]
KV(k, v) == [kind |-> "kv", k |-> k, v |-> v]

Upper(k) == IF k = "layout" THEN "LAYOUT" ELSE k

Lower(v) ==
    CASE v = "All" -> "all"
      [] v = "Standard" -> "standard"
      [] v = "GUTTERFOLD" -> "gutterfold"
      [] v = "A4" -> "a4"
      [] v = "Both" -> "both"
      [] v = "A3" -> "a3"
      [] v = "Low" -> "low"
      [] v = "Medium" -> "medium"
      [] v = "High" -> "high"
      [] OTHER -> v

\* read_pdf_config: KEY=VALUE lines only, keys upper-cased, a later line wins
read_pdf_config(lines) ==
    LET kv == { i \in DOMAIN lines : lines[i].kind = "kv" }
        same(k) == { i \in kv : Upper(lines[i].k) = k }
        last(k) == CHOOSE i \in same(k) : \A j \in same(k) : j <= i
    IN  [ k \in { Upper(lines[i].k) : i \in kv } |-> lines[last(k)].v ]

\* cfg.get(key, default)
Get(d, key, default) == IF key \in DOMAIN d THEN d[key] ELSE default

\* "use_cfg = bool(cfg)": the dict read from the file is not empty
use_cfg(c) == DOMAIN c.dict # {}

\* int(cfg.get("CARD_FORMAT", "1")), 1 when int() raises
wanted_id(d) ==
    LET v == Get(d, "CARD_FORMAT", "1")
    IN  CASE v = "1" -> 1 [] v = "3" -> 3 [] v = "6" -> 6 [] v = "9" -> 9 [] OTHER -> 1

\* next((f for f in CARD_FORMATS if f['id'] == wanted_id), CARD_FORMATS[0])
config_card_format(d, formats) ==
    IF \E i \in DOMAIN formats : formats[i].id = wanted_id(d)
    THEN formats[CHOOSE i \in DOMAIN formats : formats[i].id = wanted_id(d)]
    ELSE formats[1]

\* _map_layout_value
map_layout_value(v) ==
    LET s == Lower(v)
    IN  IF s \in {"", "all", "a"} THEN <<"standard", "bleed", "gutterfold">>
        ELSE IF s \in {"standard", "s", "3x3", "3x4", "3"} THEN <<"standard">>
        ELSE IF s \in {"bleed", "b", "2x3", "2x5", "2"} THEN <<"bleed">>
        ELSE IF s \in {"gutterfold", "g", "gf"} THEN <<"gutterfold">>
        ELSE <<"standard", "bleed", "gutterfold">>

\* _map_paper_value
map_paper_value(v) ==
    LET s == Lower(v)
    IN  IF s \in {"a4", "a"} THEN << [pagesize |-> A4, suffix |-> "_A4"] >>
        ELSE IF s \in {"letter", "l"} THEN << [pagesize |-> letter, suffix |-> "_Letter"] >>
        ELSE << [pagesize |-> A4, suffix |-> "_A4"], [pagesize |-> letter, suffix |-> "_Letter"] >>

\* _map_quality_value
map_quality_value(v) ==
    LET s == Lower(v)
    IN  IF s \in {"lossless", "l", "loss", "0"} THEN "lossless"
        ELSE IF s \in {"high", "h", "1", ""} THEN "high"
        ELSE IF s \in {"medium", "m", "med", "2"} THEN "medium"
        ELSE IF s \in {"low", "lo", "3"} THEN "low"
        ELSE "high"

\* make_safe_name
make_safe_name(name) ==
    CASE name = "" -> "output"
      [] name = "my deck" -> "my_deck"
      [] OTHER -> name

\* raw_bottom.replace("(C)", copyright sign) ... if raw_bottom else None
bottom_text(raw_bottom) ==
    CASE raw_bottom = "" -> "None"
      [] raw_bottom = "(C) Me" -> "(copyright sign) Me"
      [] OTHER -> raw_bottom

\* the values tried for each key of pdfConfig.txt
ConfigValues(k) ==
    CASE k = "CARD_FORMAT" -> {"1", "3", "6", "9", "", "x"}
      [] k = "LAYOUT" -> {"All", "Standard", "bleed", "GUTTERFOLD", "", "poster"}
      [] k = "layout" -> {"bleed"}
      [] k = "PAPER" -> {"A4", "letter", "Both", "A3"}
      [] k = "QUALITY" -> {"Low", "lossless", "Medium", "", "best"}
      [] k = "BOTTOM_TEXT" -> {"", "(C) Me"}
      [] k = "VERSION" -> {"", "v1.0"}
      [] k = "OUTPUT_NAME" -> {"cards", "my deck", ""}

ConfigKeys == {"CARD_FORMAT", "LAYOUT", "layout", "PAPER", "QUALITY", "BOTTOM_TEXT", "VERSION", "OUTPUT_NAME"}

\* the template written by write_pdf_config_template
ConfigTemplate ==
    << CommentLine, KV("CARD_FORMAT", "1"), KV("LAYOUT", "All"), KV("PAPER", "Both"),
       KV("QUALITY", "High"), KV("BOTTOM_TEXT", ""), KV("VERSION", ""), KV("OUTPUT_NAME", "cards") >>

\* pdfConfig.txt in the card folder: none; a file without any KEY=VALUE line; a
\* file with one KEY=VALUE line; the template; a file whose second LAYOUT line
\* overrides the first
NoConfigFile == [present |-> FALSE, lines |-> << >>]
ConfigFiles ==
    { NoConfigFile,
      [present |-> TRUE, lines |-> << >>],
      [present |-> TRUE, lines |-> << CommentLine >>],
      [present |-> TRUE, lines |-> ConfigTemplate],
      [present |-> TRUE, lines |-> << KV("layout", "bleed"), KV("LAYOUT", "Standard") >>] }
    \cup UNION { { [present |-> TRUE, lines |-> << CommentLine, KV(k, v) >>] :
                     v \in ConfigValues(k) } : k \in ConfigKeys }

NoConfig == [present |-> FALSE, dict |-> [k \in {} |-> ""]]
NoUi == [prompts |-> {}, quality_key |-> "", copyright_name |-> "None",
         version_str |-> "", out_base |-> ""]

InitMain ==
    /\ CUTMARK_LEN_PT_STD = DEFAULT_CUTMARK_LEN_PT_STD
    /\ pc = "start"
    /\ layout_keys = << >>
    /\ size_modes = << >>
    /\ pairs = << >>
    /\ include_back_pages = TRUE
    /\ pairs_for_2x3 = << >>
    /\ generation_dir = FALSE
    /\ cfg = NoConfig
    /\ ui = NoUi
    /\ li = 1
    /\ si = 1
    /\ docs = << >>
    /\ raised = NoError

\* _get_positive_float: the option as a float, the fallback for a missing or
\* unreadable option and for a value that is not positive
get_positive_float(has_option, v, fallback) ==
    IF ~has_option \/ v <= 0 THEN fallback ELSE v

\* load_cutmarks_from_config: the new value of CUTMARK_LEN_PT_STD
load_cutmarks_from_config(ini, len_std) ==
    get_positive_float(ini.has_length, ini.length_pt_standard, len_std)

\* pnp_pdf_creator.ini as the run finds it: no or one of the [custom_format]
\* sections with the [cutmarks] length that ensure_cutmark_defaults writes, and
\* files edited by the user: a length that is not positive, a shorter and a
\* longer mark
IniFiles ==
    { [ custom |-> c, has_length |-> FALSE, length_pt_standard |-> 0 ] :
          c \in { << >> } \cup CustomFormatPx }
    \cup { [ custom |-> << >>, has_length |-> TRUE, length_pt_standard |-> l ] :
              l \in { 0, Pt(3), Pt(30) } }

\* prompt_language_if_needed: the INI custom format, when valid, becomes format 6,
\* and the cut-mark settings of the INI replace the module's
MainStart ==
    /\ pc = "start"
    /\ \E ini \in IniFiles :
         /\ CARD_FORMATS' =
                IF ini.custom = << >> THEN BUILTIN_FORMATS
                ELSE Append(BUILTIN_FORMATS,
                            load_custom_format_from_config(ini.custom[1], ini.custom[2]))
         /\ CUTMARK_LEN_PT_STD' = load_cutmarks_from_config(ini, CUTMARK_LEN_PT_STD)
    /\ pc' = "format"
    /\ UNCHANGED << cfg, ui, PIL, geomVars, cacheVars, gridVars, layout_keys, size_modes, pairs,
                    include_back_pages, pairs_for_2x3, generation_dir, li, si, docs, raised >>

\* pdfConfig.txt of the card folder, then card format, layouts, paper sizes and
\* quality, from the file or from the prompts
MainFormat ==
    /\ pc = "format"
    /\ \E file \in ConfigFiles :
         LET c == [ present |-> file.present,
                    dict |-> IF file.present THEN read_pdf_config(file.lines) ELSE NoConfig.dict ]
         IN  /\ cfg' = c
             /\ IF use_cfg(c)
                THEN /\ SetGeometry(apply_card_format(config_card_format(c.dict, CARD_FORMATS)))
                     /\ layout_keys' = map_layout_value(Get(c.dict, "LAYOUT", "All"))
                     /\ size_modes' = map_paper_value(Get(c.dict, "PAPER", "Both"))
                     /\ ui' = [ui EXCEPT !.quality_key = map_quality_value(Get(c.dict, "QUALITY", ""))]
                ELSE /\ \E i \in DOMAIN CARD_FORMATS : SetGeometry(apply_card_format(CARD_FORMATS[i]))
                     /\ \E lks \in LayoutChoices : layout_keys' = lks
                     /\ \E sm \in PaperChoices : size_modes' = sm
                     /\ ui' = [ui EXCEPT !.prompts = @ \cup {"prompt_card_format", "prompt_layout_dynamic",
                                                             "prompt_pagesize_mode", "prompt_quality"},
                                         !.quality_key = DEFAULT_QUALITY]
    /\ pc' = "pairs"
    /\ UNCHANGED << PIL, CUTMARK_LEN_PT_STD, CARD_FORMATS, cacheVars, gridVars, pairs, include_back_pages,
                    pairs_for_2x3, generation_dir, li, si, docs, raised >>

\* "if not pairs" ignored: main goes on to the back handling
after_find_pairs_continue(found) == "backs"

\* "if not pairs: ... pause_before_exit(...); return"
after_find_pairs(found) == IF Len(found) = 0 THEN "exit_no_cards" ELSE "backs"

\* find_card_pairs; no pairs: message, pause, return
MainFindPairs ==
    /\ pc = "pairs"
    /\ \E d \in Decks :
          /\ pairs' = d
          /\ pc' = after_find_pairs(d)
    /\ UNCHANGED << cfg, ui, PIL, CUTMARK_LEN_PT_STD, CARD_FORMATS, geomVars, cacheVars, gridVars, layout_keys, size_modes,
                    include_back_pages, pairs_for_2x3, generation_dir, li, si, docs, raised >>

\* "if missing_backs and any(k.lower() == 'gutterfold' ...)": Gutterfold is kept
\* regardless of missing backs
gutterfold_kept(keys, missing_backs) == keys

\* "if missing_backs and any(k.lower() == 'gutterfold' ...)": Gutterfold is dropped
gutterfold_needs_backs(keys, missing_backs) ==
    IF missing_backs # {} /\ Has(keys, {"gutterfold"})
    THEN Without(keys, {"gutterfold"})
    ELSE keys

\* back handling: shared card back, or no back pages; Gutterfold needs every back
MainBacks ==
    /\ pc = "backs"
    /\ \E shared_back \in SharedBacks :
         LET missing_backs == { i \in DOMAIN pairs : ~Exists(pairs[i].b) }
             has_any_back == Cardinality(missing_backs) < Len(pairs)
             use_shared == ~has_any_back /\ Exists(shared_back)
             pairs1 == IF use_shared
                       THEN [ i \in DOMAIN pairs |-> [pairs[i] EXCEPT !.b = shared_back] ]
                       ELSE pairs
             missing1 == IF use_shared THEN {} ELSE missing_backs
             keys1 == IF ~has_any_back /\ ~use_shared
                      THEN Without(layout_keys, {"gutterfold"})
                      ELSE layout_keys
             keys2 == gutterfold_needs_backs(keys1, missing1)
         IN  /\ (has_any_back => shared_back = NoneImg)   \* the folder is not searched then
             /\ pairs' = pairs1
             /\ include_back_pages' = (has_any_back \/ use_shared)
             /\ layout_keys' = keys2
    /\ pc' = "analyze"
    /\ UNCHANGED << cfg, ui, PIL, CUTMARK_LEN_PT_STD, CARD_FORMATS, geomVars, cacheVars, gridVars, size_modes,
                    pairs_for_2x3, generation_dir, li, si, docs, raised >>

\* analyze_card_images and the bleed eligibility checks
MainAnalyze ==
    /\ pc = "analyze"
    /\ LET r == analyze_card_images(pairs)
           keys1 == IF Has(layout_keys, {"bleed", "2x3", "2x5"}) /\ r.too_small_bleed # {}
                    THEN Without(layout_keys, {"bleed", "2x3", "2x5"})
                    ELSE layout_keys
           bad23 == Len(r.eligible) = 0 \/ Len(r.eligible) # Len(pairs)
           keys2 == IF bad23 THEN Without(keys1, {"2x3", "2x5"}) ELSE keys1
       IN  /\ pairs_for_2x3' = r.eligible
           /\ layout_keys' = keys2
           /\ pc' = IF Len(keys2) = 0 THEN "exit_no_layouts" ELSE "prepare"
    /\ UNCHANGED << cfg, ui, PIL, CUTMARK_LEN_PT_STD, CARD_FORMATS, geomVars, cacheVars, gridVars, size_modes, pairs,
                    include_back_pages, generation_dir, li, si, docs, raised >>

\* rulebook / logo lookup, remaining inputs, build_generation_dir, warm-up
MainPrepare ==
    /\ pc = "prepare"
    /\ ui' = IF use_cfg(cfg)
             THEN [ui EXCEPT !.copyright_name = bottom_text(Get(cfg.dict, "BOTTOM_TEXT", "")),
                             !.version_str = Get(cfg.dict, "VERSION", ""),
                             !.out_base = make_safe_name(Get(cfg.dict, "OUTPUT_NAME", "cards"))]
             ELSE [ui EXCEPT !.prompts = @ \cup {"prompt_copyright_name", "prompt_version",
                                                 "prompt_output_base"},
                             !.copyright_name = "None",
                             !.version_str = "",
                             !.out_base = "cards"]
    /\ generation_dir' = TRUE
    /\ li' = 1
    /\ si' = 1
    /\ pc' = "generate"
    /\ UNCHANGED << cfg, PIL, CUTMARK_LEN_PT_STD, CARD_FORMATS, geomVars, cacheVars, gridVars, layout_keys, size_modes,
                    pairs, include_back_pages, pairs_for_2x3, docs, raised >>

\* one pass of the inner loop "for base_pagesize, suffix in size_modes"
MainGenerate ==
    /\ pc = "generate"
    /\ LET layout_key == layout_keys[li]
           mode == size_modes[si]
           all_have_bleed == Len(pairs_for_2x3) > 0 /\ Len(pairs_for_2x3) = Len(pairs)
           pairs_layout == IF IsBleed(layout_key) THEN pairs_for_2x3 ELSE pairs
           pagesize_tuple == IF layout_key = "gutterfold"
                             THEN choose_gutterfold_orientation(mode.pagesize)
                             ELSE IF IsBleed(layout_key) THEN landscape(mode.pagesize)
                             ELSE mode.pagesize
           outer_keep == IF IsStandard(layout_key) THEN OUTER_BLEED_KEEP_PX
                         ELSE IF IsBleed(layout_key) THEN 0
                         ELSE IF all_have_bleed THEN OUTER_BLEED_KEEP_PX ELSE 0
           r == generate_pdf(layout_key, pagesize_tuple, pairs_layout, include_back_pages, outer_keep)
           last == li = Len(layout_keys) /\ si = Len(size_modes)
       IN  IF r.raised.kind # "none"
           THEN \* no try/except in main: the exception ends the run in __main__
                /\ raised' = [r.raised EXCEPT !.layout = layout_key, !.suffix = mode.suffix]
                /\ pc' = "failed"
                /\ UNCHANGED << docs, li, si >>
           ELSE /\ docs' = Append(docs, [ layout |-> layout_key, suffix |-> mode.suffix,
                                          pagesize |-> pagesize_tuple, pairs |-> pairs_layout,
                                          include_back |-> include_back_pages,
                                          per_page |-> r.per_page, pages |-> r.pages ])
                /\ pc' = IF last THEN "done" ELSE "generate"
                /\ si' = IF si < Len(size_modes) THEN si + 1 ELSE 1
                /\ li' = IF si < Len(size_modes) THEN li ELSE IF last THEN li ELSE li + 1
                /\ UNCHANGED raised
    /\ UNCHANGED << cfg, ui, PIL, CUTMARK_LEN_PT_STD, CARD_FORMATS, geomVars, cacheVars, gridVars, layout_keys, size_modes,
                    pairs, include_back_pages, pairs_for_2x3, generation_dir >>

\* no preprocessing call observed yet
NoCall == [fn |-> "none", n |-> 0]

\* _CONVERT_CACHE = {} and, after clear_tmp_cache(), an empty TMP_DIR
InitCacheEmpty ==
    /\ CONVERT_CACHE = << >>
    /\ tmp_files = << >>
    /\ last_call = NoCall
    /\ first_result = << >>

InitCacheIdle ==
    /\ InitCacheEmpty
    /\ folder_images = {}
    /\ quality_key = "high"

\* no planner call and no placement call observed yet
NoPlan == [fn |-> "none"]
NoSheet == [fn |-> "none"]

InitGridIdle ==
    /\ plan = NoPlan
    /\ sheet = NoSheet

Init ==
    /\ PIL \in BOOLEAN
    /\ CARD_FORMATS = BUILTIN_FORMATS
    /\ InitGeometry
    /\ InitMain
    /\ InitCacheIdle
    /\ InitGridIdle

Next ==
    \/ MainStart
    \/ MainFormat
    \/ MainFindPairs
    \/ MainBacks
    \/ MainAnalyze
    \/ MainPrepare
    \/ MainGenerate

Spec == Init /\ [][Next]_vars

-----------------------------------------------------------------------------
(* Properties of the run of main() *)

RunOver == pc \in {"done", "failed"}

Requested == { << layout_keys[i], size_modes[j] >> : i \in DOMAIN layout_keys, j \in DOMAIN size_modes }

HasDoc(layout, suffix) == \E d \in DOMAIN docs : docs[d].layout = layout /\ docs[d].suffix = suffix

\* C1: a gutterfold generate_pdf call on a page whose available height is below
\* 2 x card height + fold gutter fails with the localized error_gutterfold_space
\* error, which carries the available and the required height, and no document is
\* created for that call.
C1_GutterfoldSpaceError ==
    (pc = "failed" /\ raised.layout = "gutterfold") =>
        /\ raised.kind = "ValueError"
        /\ raised.what = "error_gutterfold_space"
        /\ raised.need = gf_needed_h
        /\ raised.avail < raised.need
        /\ ~HasDoc(raised.layout, raised.suffix)

\* C2: a gutterfold space failure aborts only its own (layout, paper size)
\* combination: when the run is over, every other requested combination has been
\* generated (each requested combination is either a saved document or the
\* combination whose failure was reported).
C2_OtherCombinationsGenerated ==
    RunOver =>
        \A c \in Requested :
            \/ HasDoc(c[1], c[2].suffix)
            \/ (raised.kind # "none" /\ raised.layout = c[1] /\ raised.suffix = c[2].suffix)

SheetDocs == { d \in DOMAIN docs : IsStandard(docs[d].layout) \/ IsBleed(docs[d].layout) }

PagesOf(doc, k, side) == { i \in DOMAIN doc.pages : doc.pages[i].sheet = k /\ doc.pages[i].side = side }

ChunkHasBack(group) == \E i \in DOMAIN group : Exists(group[i].b)

\* C3 (as amended): in the standard and bleed layouts every chunk of the deck
\* produces exactly one front page, and one back page if and only if at least one
\* pair of that same chunk has an existing back image; no other card page exists.
C3_BackPagePerChunk ==
    \A d \in SheetDocs :
        LET doc == docs[d]
            chunks == chunk(doc.pairs, doc.per_page)
        IN  /\ \A k \in DOMAIN chunks :
                  /\ Cardinality(PagesOf(doc, k, "a")) = 1
                  /\ Cardinality(PagesOf(doc, k, "b")) = (IF ChunkHasBack(chunks[k]) THEN 1 ELSE 0)
            /\ \A i \in DOMAIN doc.pages :
                  doc.pages[i].sheet \in DOMAIN chunks /\ doc.pages[i].side \in {"a", "b"}

\* C3 as claimed: a chunk gets its back page if and only if some pair anywhere in
\* the full deck has a back image.
C3_BackPageIfAnyBackInDeck ==
    \A d \in SheetDocs :
        LET doc == docs[d]
            chunks == chunk(doc.pairs, doc.per_page)
        IN  \A k \in DOMAIN chunks :
                /\ Cardinality(PagesOf(doc, k, "a")) = 1
                /\ Cardinality(PagesOf(doc, k, "b")) = (IF ChunkHasBack(doc.pairs) THEN 1 ELSE 0)

\* a document of two chunks, one with a back page and one without
C3_Witness ==
    \E d \in SheetDocs :
        LET doc == docs[d]
        IN  /\ PagesOf(doc, 1, "a") # {} /\ PagesOf(doc, 2, "a") # {}
            /\ \E k1, k2 \in 1..2 : PagesOf(doc, k1, "b") # {} /\ PagesOf(doc, k2, "b") = {}

\* C6: once apply_card_format has run, the bleed size exceeds the inner size by
\* 37 + 38 = 75 px on both axes, in every later state of the run.
C6_BleedBorderInvariant ==
    current_format # NoFormat =>
        /\ BLEED_W_PX - INNER_W_PX = 75
        /\ BLEED_H_PX - INNER_H_PX = 75
        /\ BLEED_LEFT_TOP_PX + BLEED_RIGHT_BOTTOM_PX = 75

\* a finished run with a format other than the module default
C6_Witness ==
    /\ pc = "done"
    /\ current_format.name = "Mini Euro"
    /\ INNER_W_PX # 750
    /\ BLEED_W_PX = INNER_W_PX + 75

-----------------------------------------------------------------------------
(* The grid planner on its own: the calls generate_pdf makes, for every card  *)
(* format, on the pages and reserves of PlanPages / PlanReserves              *)

\* the format lists prompt_language_if_needed can leave in CARD_FORMATS
FormatLists ==
    { BUILTIN_FORMATS }
    \cup { Append(BUILTIN_FORMATS, load_custom_format_from_config(c[1], c[2])) : c \in CustomFormatPx }

\* some card format has been applied
InitFormatApplied ==
    \E cf \in FormatLists :
        /\ CARD_FORMATS = cf
        /\ \E i \in DOMAIN cf : GeometryIs(apply_card_format(cf[i]))

\* the four pages main can hand over, a page too small for one card and a page
\* whose available height is not positive
PlanPages ==
    { A4, letter, landscape(A4), landscape(letter), << Pt(200), Pt(100) >>, << Pt(200), Pt(30) >> }

\* (left, right, top) reserves: the module defaults and an asymmetric set
PlanReserves ==
    { << RESERVE_LEFT_PT, RESERVE_RIGHT_PT, RESERVE_TOP_PT >>, << Pt(10), Pt(24), Pt(40) >> }

PlanRecord(fn, page, box_w, box_h, top_res, bottom_res, left_res, right_res, extra, g) ==
    [ fn |-> fn, page_w |-> page[1], page_h |-> page[2], box_w |-> box_w, box_h |-> box_h,
      margins |-> MARGINS_PT, top_res |-> top_res, bottom_res |-> bottom_res,
      left_res |-> left_res, right_res |-> right_res, extra |-> extra,
      cols |-> g.cols, rows |-> g.rows, x0 |-> g.x0, y0 |-> g.y0,
      grid_w |-> g.grid_w, grid_h |-> g.grid_h, grid_top_y |-> g.grid_top_y ]

\* generate_pdf, standard and bleed branch: compute_max_grid_counts
PlanGrid ==
    /\ \E page \in PlanPages, res \in PlanReserves, bleed \in BOOLEAN, extra \in {0, GF_FOLD_GUTTER_PT} :
         LET bb == get_bleed_box_size_pt(POKER_W_PT, POKER_H_PT,
                       INNER_W_PX, INNER_H_PX, BLEED_W_PX, BLEED_H_PX)
             box_w == IF bleed THEN bb[1] ELSE POKER_W_PT
             box_h == IF bleed THEN bb[2] ELSE POKER_H_PT
             g == compute_max_grid_counts(page[1], page[2], box_w, box_h, MARGINS_PT,
                      BOTTOM_RESERVED_PT, extra, res[1], res[2], res[3])
         IN  plan' = PlanRecord("compute_max_grid_counts", page, box_w, box_h,
                                res[3], BOTTOM_RESERVED_PT, res[1], res[2], extra, g)
    /\ UNCHANGED << PIL, CUTMARK_LEN_PT_STD, CARD_FORMATS, geomVars, cacheVars, mainVars, sheet >>

\* generate_pdf, gutterfold branch past the space test: two fixed rows, the
\* origin straight from compute_grid_origin_centered_with_margins
PlanGutterfold ==
    /\ \E page \in PlanPages :
         LET avail_w == page[1] - MARGINS_PT.left - MARGINS_PT.right
             cols == Max(1, avail_w \div POKER_W_PT)
             grid_w == cols * POKER_W_PT
             grid_h == 2 * POKER_H_PT + GF_FOLD_GUTTER_PT
             o == compute_grid_origin_centered_with_margins(page[1], page[2], grid_w, grid_h,
                      MARGINS_PT, RESERVE_TOP_PT, BOTTOM_RESERVED_PT, 0, 0)
         IN  /\ gf_available_h(page) >= 2 * POKER_H_PT + GF_FOLD_GUTTER_PT
             /\ plan' = PlanRecord("compute_grid_origin_centered_with_margins", page,
                            POKER_W_PT, POKER_H_PT, RESERVE_TOP_PT, BOTTOM_RESERVED_PT, 0, 0,
                            GF_FOLD_GUTTER_PT,
                            [ cols |-> cols, rows |-> 2, x0 |-> o[1], y0 |-> o[2],
                              grid_w |-> grid_w, grid_h |-> grid_h, grid_top_y |-> o[2] + grid_h ])
    /\ UNCHANGED << PIL, CUTMARK_LEN_PT_STD, CARD_FORMATS, geomVars, cacheVars, mainVars, sheet >>

InitPlan ==
    /\ PIL = TRUE
    /\ InitFormatApplied
    /\ InitMain
    /\ InitCacheIdle
    /\ InitGridIdle

NextPlan ==
    \/ PlanGrid
    \/ PlanGutterfold

SpecPlan == InitPlan /\ [][NextPlan]_vars

Planned == plan.fn # "none"

\* the area left after the margins and the reserves of the observed call
PlanAvailX == plan.margins.left + plan.left_res
PlanAvailY == plan.margins.bottom + plan.bottom_res
PlanAvailW == plan.page_w - plan.margins.left - plan.margins.right - plan.left_res - plan.right_res
PlanAvailH == plan.page_h - plan.margins.top - plan.margins.bottom - plan.top_res - plan.bottom_res

\* C7: whenever the planned grid is no wider and no taller than the available
\* area, the origin centres it: origin + grid/2 = available start + available/2
\* on each axis (both sides doubled to stay in whole units).
C7_GridCentered ==
    (Planned /\ plan.grid_w <= PlanAvailW /\ plan.grid_h <= PlanAvailH) =>
        /\ 2 * plan.x0 + plan.grid_w = 2 * PlanAvailX + PlanAvailW
        /\ 2 * plan.y0 + plan.grid_h = 2 * PlanAvailY + PlanAvailH

\* a fitting grid planned with non-zero, unequal reserves on all four sides,
\* strictly smaller than the available area on both axes
C7_Witness ==
    /\ Planned
    /\ plan.fn = "compute_max_grid_counts"
    /\ plan.left_res > 0 /\ plan.right_res > plan.left_res /\ plan.top_res > plan.bottom_res
    /\ plan.grid_w < PlanAvailW /\ plan.grid_h < PlanAvailH
    /\ plan.cols >= 2 /\ plan.rows >= 2
    /\ plan.x0 > PlanAvailX /\ plan.y0 > PlanAvailY

-----------------------------------------------------------------------------
(* Placement of one sheet: place_images_grid_inner / place_images_bleed_grid  *)
(* List indices are 0-based as in the program: img_paths[idx] is the          *)
(* (idx + 1)-th element of the sequence.                                      *)

SetMin(S) == CHOOSE x \in S : \A y \in S : x <= y
SetMax(S) == CHOOSE x \in S : \A y \in S : x >= y

\* None in min_col_row / max_col_row
NoCol == -1

\* the variant that does not mirror the columns of a back side
compute_enclosing_edges_nomirror(img_paths, cols, rows, is_back) ==
    LET per_page == cols * rows
        n == Min(Len(img_paths), per_page)
        occ == { << idx \div cols, idx % cols >> :
                     idx \in { i \in 0..(n - 1) : Exists(img_paths[i + 1]) } }
        row_has == [ i \in 0..(rows - 1) |-> \E j \in 0..(cols - 1) : << i, j >> \in occ ]
        with == { i \in 0..(rows - 1) : row_has[i] }
        colsOf(i) == { j \in 0..(cols - 1) : << i, j >> \in occ }
    IN  [ min_row |-> IF with = {} THEN 0 ELSE SetMin(with),
          max_row |-> IF with = {} THEN rows - 1 ELSE SetMax(with),
          min_col_row |-> [ i \in 0..(rows - 1) |-> IF row_has[i] THEN SetMin(colsOf(i)) ELSE NoCol ],
          max_col_row |-> [ i \in 0..(rows - 1) |-> IF row_has[i] THEN SetMax(colsOf(i)) ELSE NoCol ] ]

\* the variant with grid-wide instead of row-local first / last occupied columns
compute_enclosing_edges_global(img_paths, cols, rows, is_back) ==
    LET per_page == cols * rows
        n == Min(Len(img_paths), per_page)
        occ == { << idx \div cols, IF is_back THEN (cols - 1) - (idx % cols) ELSE idx % cols >> :
                     idx \in { i \in 0..(n - 1) : Exists(img_paths[i + 1]) } }
        row_has == [ i \in 0..(rows - 1) |-> \E j \in 0..(cols - 1) : << i, j >> \in occ ]
        with == { i \in 0..(rows - 1) : row_has[i] }
        allCols == { c[2] : c \in occ }
    IN  [ min_row |-> IF with = {} THEN 0 ELSE SetMin(with),
          max_row |-> IF with = {} THEN rows - 1 ELSE SetMax(with),
          min_col_row |-> [ i \in 0..(rows - 1) |-> IF row_has[i] THEN SetMin(allCols) ELSE NoCol ],
          max_col_row |-> [ i \in 0..(rows - 1) |-> IF row_has[i] THEN SetMax(allCols) ELSE NoCol ] ]

\* _compute_enclosing_edges: first / last occupied row, and per row the first /
\* last occupied column, with the columns of a back side mirrored
compute_enclosing_edges(img_paths, cols, rows, is_back) ==
    LET per_page == cols * rows
        n == Min(Len(img_paths), per_page)
        occ == { << idx \div cols, IF is_back THEN (cols - 1) - (idx % cols) ELSE idx % cols >> :
                     idx \in { i \in 0..(n - 1) : Exists(img_paths[i + 1]) } }
        row_has == [ i \in 0..(rows - 1) |-> \E j \in 0..(cols - 1) : << i, j >> \in occ ]
        with == { i \in 0..(rows - 1) : row_has[i] }
        colsOf(i) == { j \in 0..(cols - 1) : << i, j >> \in occ }
    IN  [ min_row |-> IF with = {} THEN 0 ELSE SetMin(with),
          max_row |-> IF with = {} THEN rows - 1 ELSE SetMax(with),
          min_col_row |-> [ i \in 0..(rows - 1) |-> IF row_has[i] THEN SetMin(colsOf(i)) ELSE NoCol ],
          max_col_row |-> [ i \in 0..(rows - 1) |-> IF row_has[i] THEN SetMax(colsOf(i)) ELSE NoCol ] ]

\* get_image_px_size(img_path) and the test sz[0] >= BLEED_W_PX and sz[1] >= BLEED_H_PX
SourceHasBleed(p) == PIL /\ p.has_bleed

\* The uniform scale s (points per pixel) that maps the inner pixel size onto the
\* card box, as the fraction s[1] / s[2]: s_w, or s_h when s_w * INNER_H_PX
\* misses card_h by more than 0.5 pt
outer_scale(card_w, card_h) ==
    IF Abs(card_w * INNER_H_PX - card_h * INNER_W_PX) <= (Pt(1) \div 2) * INNER_W_PX
    THEN << card_w, INNER_W_PX >>
    ELSE << card_h, INNER_H_PX >>

\* s * px, as an even unit count
Scaled(s, px) == 2 * ((s[1] * px) \div (2 * s[2]))

\* the area of the page an image covers
Rect(x, y, w, h) == [ x |-> x, y |-> y, w |-> w, h |-> h ]

\* get_image_px_size(processed) of an image preprocessed to the inner size
\* (<< 0, 0 >>: None, no size without the image library)
processed_inner_px == IF PIL THEN << INNER_W_PX, INNER_H_PX >> ELSE << 0, 0 >>

\* fit_image_into_box: the largest size of the image's aspect ratio inside the box
fit_image_into_box(size, box_w, box_h) ==
    IF size[1] <= 0 \/ size[2] <= 0 THEN << box_w, box_h >>
    ELSE IF box_w * size[2] <= box_h * size[1]
    THEN << box_w, 2 * ((box_w * size[2]) \div (2 * size[1])) >>
    ELSE << 2 * ((box_h * size[1]) \div (2 * size[2])), box_h >>

\* an image drawn with its aspect ratio kept, centred in the box (x, y, w, h)
centered(d, x, y, w, h) == Rect(x + (w - d[1]) \div 2, y + (h - d[2]) \div 2, d[1], d[2])

fit_centered(size, x, y, w, h) == centered(fit_image_into_box(size, w, h), x, y, w, h)

\* the box handed to drawImage for an image with outer bleed: the inner area
\* on the card box, the kept edges outside it
outer_rect(s, x, y, keep_left, keep_right, keep_top, keep_bottom) ==
    Rect(x - Scaled(s, keep_left), y - Scaled(s, keep_bottom),
         Scaled(s, INNER_W_PX + keep_left + keep_right),
         Scaled(s, INNER_H_PX + keep_top + keep_bottom))

\* the area a cell's image covers in place_images_grid_inner
inner_cell_rect(outer, x, y, card_w, card_h, keep_left, keep_right, keep_top, keep_bottom) ==
    IF outer
    THEN outer_rect(outer_scale(card_w, card_h), x, y, keep_left, keep_right, keep_top, keep_bottom)
    ELSE fit_centered(processed_inner_px, x, y, card_w, card_h)

\* place_images_grid_inner: the images it draws, one record per drawn cell
place_images_grid_inner(img_paths, x0, y0, card_w, card_h, cols, rows, is_back, outer_bleed_keep_px) ==
    LET per_page == cols * rows
        head == SubSeq(img_paths, 1, Min(Len(img_paths), per_page))
        e == compute_enclosing_edges(head, cols, rows, is_back)
        occ == { << (i - 1) \div cols,
                    IF is_back THEN (cols - 1) - ((i - 1) % cols) ELSE (i - 1) % cols >> :
                     i \in { k \in DOMAIN head : Exists(head[k]) } }
        drawn == { idx \in 0..(per_page - 1) : idx < Len(img_paths) /\ Exists(img_paths[idx + 1]) }
        cell(idx) ==
            LET row == idx \div cols
                col == IF is_back THEN (cols - 1) - (idx % cols) ELSE idx % cols
                keep_left == IF e.min_col_row[row] # NoCol /\ col = e.min_col_row[row]
                             THEN outer_bleed_keep_px ELSE 0
                keep_right == IF e.max_col_row[row] # NoCol /\ col = e.max_col_row[row]
                              THEN outer_bleed_keep_px ELSE 0
                keep_top == IF row = e.min_row THEN outer_bleed_keep_px ELSE 0
                keep_bottom == IF row = e.max_row THEN outer_bleed_keep_px
                               ELSE IF row + 1 < rows
                                    THEN (IF << row + 1, col >> \notin occ THEN outer_bleed_keep_px ELSE 0)
                                    ELSE 0
                use_outer == outer_bleed_keep_px > 0
                             /\ (keep_left # 0 \/ keep_right # 0 \/ keep_top # 0 \/ keep_bottom # 0)
            IN  [ idx |-> idx, img |-> img_paths[idx + 1], row |-> row, col |-> col,
                  x |-> x0 + col * card_w,
                  y |-> y0 + (rows - 1 - row) * card_h,
                  keep_left |-> keep_left, keep_right |-> keep_right,
                  keep_top |-> keep_top, keep_bottom |-> keep_bottom,
                  outer |-> use_outer /\ SourceHasBleed(img_paths[idx + 1]),
                  rect |-> inner_cell_rect(use_outer /\ SourceHasBleed(img_paths[idx + 1]),
                                           x0 + col * card_w, y0 + (rows - 1 - row) * card_h,
                                           card_w, card_h,
                                           keep_left, keep_right, keep_top, keep_bottom) ]
    IN  { cell(idx) : idx \in drawn }

\* the variant that draws a back side without mirroring its columns
place_images_bleed_grid_nomirror(img_paths, x0, y0, box_w, box_h, cols, rows, is_back) ==
    LET per_page == cols * rows
        drawn == { idx \in 0..(Min(Len(img_paths), per_page) - 1) : Exists(img_paths[idx + 1]) }
        cell(idx) ==
            LET row == idx \div cols
                col == idx % cols
            IN  [ idx |-> idx, img |-> img_paths[idx + 1], row |-> row, col |-> col,
                  x |-> x0 + col * box_w,
                  y |-> y0 + (rows - 1 - row) * box_h,
                  keep_left |-> 0, keep_right |-> 0, keep_top |-> 0, keep_bottom |-> 0,
                  outer |-> FALSE ]
    IN  { cell(idx) : idx \in drawn }

\* place_images_bleed_grid: full bleed boxes, no outer-bleed amounts
place_images_bleed_grid(img_paths, x0, y0, box_w, box_h, cols, rows, is_back) ==
    LET per_page == cols * rows
        drawn == { idx \in 0..(Min(Len(img_paths), per_page) - 1) : Exists(img_paths[idx + 1]) }
        cell(idx) ==
            LET row == idx \div cols
                col == IF is_back THEN (cols - 1) - (idx % cols) ELSE idx % cols
            IN  [ idx |-> idx, img |-> img_paths[idx + 1], row |-> row, col |-> col,
                  x |-> x0 + col * box_w,
                  y |-> y0 + (rows - 1 - row) * box_h,
                  keep_left |-> 0, keep_right |-> 0, keep_top |-> 0, keep_bottom |-> 0,
                  outer |-> FALSE ]
    IN  { cell(idx) : idx \in drawn }

\* Cut marks of a bleed grid.  A cut position is a fraction of a box; it is kept
\* exactly, as the position times BLEED_W_PX (x) or times BLEED_H_PX (y).  A
\* mark is a segment: "v" at x = at / BLEED_W_PX from y = lo to y = hi, "h" at
\* y = at / BLEED_H_PX from x = lo to x = hi.

\* the variant that measures the 38 px border from the left and from the top
draw_cutmarks_bleed_swapped(x0, y0, cols, rows, box_w, box_h) ==
    LET grid_w == cols * box_w
        grid_h == rows * box_h
        x_left == x0
        x_right == x0 + grid_w
        y_bottom == y0
        y_top == y0 + grid_h
        \* fx_left, fx_right, fy_bottom, fy_top, times BLEED_W_PX / BLEED_H_PX
        nx_left == BLEED_RIGHT_BOTTOM_PX
        nx_right == BLEED_RIGHT_BOTTOM_PX + INNER_W_PX
        ny_bottom == BLEED_LEFT_TOP_PX
        ny_top == BLEED_LEFT_TOP_PX + INNER_H_PX
        x_cuts == [ k \in 1..(2 * cols) |->
                      (x0 + ((k - 1) \div 2) * box_w) * BLEED_W_PX
                      + (IF k % 2 = 1 THEN nx_left ELSE nx_right) * box_w ]
        y_cuts == [ k \in 1..(2 * rows) |->
                      (y0 + ((k - 1) \div 2) * box_h) * BLEED_H_PX
                      + (IF k % 2 = 1 THEN ny_bottom ELSE ny_top) * box_h ]
        L == CUTMARK_LEN_PT_BLEED
    IN  [ x_cuts |-> x_cuts, y_cuts |-> y_cuts,
          lines |->
              { [ dir |-> "v", at |-> x_cuts[k], lo |-> y_bottom - L, hi |-> y_bottom ] :
                    k \in DOMAIN x_cuts }
              \cup { [ dir |-> "v", at |-> x_cuts[k], lo |-> y_top, hi |-> y_top + L ] :
                    k \in DOMAIN x_cuts }
              \cup { [ dir |-> "h", at |-> y_cuts[k], lo |-> x_left - L, hi |-> x_left ] :
                    k \in DOMAIN y_cuts }
              \cup { [ dir |-> "h", at |-> y_cuts[k], lo |-> x_right, hi |-> x_right + L ] :
                    k \in DOMAIN y_cuts } ]

\* draw_cutmarks_bleed_outer_only: x_cuts / y_cuts of every column / row, and a
\* mark of length L below, above, left and right of the grid for each of them
draw_cutmarks_bleed_outer_only(x0, y0, cols, rows, box_w, box_h) ==
    LET grid_w == cols * box_w
        grid_h == rows * box_h
        x_left == x0
        x_right == x0 + grid_w
        y_bottom == y0
        y_top == y0 + grid_h
        \* fx_left, fx_right, fy_bottom, fy_top, times BLEED_W_PX / BLEED_H_PX
        nx_left == BLEED_LEFT_TOP_PX
        nx_right == BLEED_LEFT_TOP_PX + INNER_W_PX
        ny_bottom == BLEED_RIGHT_BOTTOM_PX
        ny_top == BLEED_RIGHT_BOTTOM_PX + INNER_H_PX
        x_cuts == [ k \in 1..(2 * cols) |->
                      (x0 + ((k - 1) \div 2) * box_w) * BLEED_W_PX
                      + (IF k % 2 = 1 THEN nx_left ELSE nx_right) * box_w ]
        y_cuts == [ k \in 1..(2 * rows) |->
                      (y0 + ((k - 1) \div 2) * box_h) * BLEED_H_PX
                      + (IF k % 2 = 1 THEN ny_bottom ELSE ny_top) * box_h ]
        L == CUTMARK_LEN_PT_BLEED
    IN  [ x_cuts |-> x_cuts, y_cuts |-> y_cuts,
          lines |->
              { [ dir |-> "v", at |-> x_cuts[k], lo |-> y_bottom - L, hi |-> y_bottom ] :
                    k \in DOMAIN x_cuts }
              \cup { [ dir |-> "v", at |-> x_cuts[k], lo |-> y_top, hi |-> y_top + L ] :
                    k \in DOMAIN x_cuts }
              \cup { [ dir |-> "h", at |-> y_cuts[k], lo |-> x_left - L, hi |-> x_left ] :
                    k \in DOMAIN y_cuts }
              \cup { [ dir |-> "h", at |-> y_cuts[k], lo |-> x_right, hi |-> x_right + L ] :
                    k \in DOMAIN y_cuts } ]

\* The lists handed to a placement function for a sheet of per_page cells: the
\* fronts or the backs of a chunk padded with None to per_page, with None where
\* a pair has no such side; and shorter lists of images, which the functions
\* accept as well (a missing tail counts as None).
SheetInputs(per_page, side, has_bleed) ==
    { [ i \in 1..per_page |-> IF i \in S THEN File(i, side, has_bleed) ELSE NoneImg ] :
          S \in SUBSET (1..per_page) }
    \cup { [ i \in 1..n |-> File(i, side, has_bleed) ] : n \in 0..(per_page - 1) }

SheetRecord(fn, img_paths, o, box_w, box_h, cols, rows, is_back, keep, draws) ==
    [ fn |-> fn, img_paths |-> img_paths, x0 |-> o[1], y0 |-> o[2],
      box_w |-> box_w, box_h |-> box_h, cols |-> cols, rows |-> rows,
      is_back |-> is_back, keep |-> keep, draws |-> draws ]

\* one front or back page of the standard branch of generate_pdf (a behaviour
\* follows the placement of one page)
PlaceImagesGridInner ==
    /\ sheet.fn = "none"
    /\ \E cols \in 1..MaxCells, rows \in 1..MaxCells, is_back \in BOOLEAN,
          keep \in {0, OUTER_BLEED_KEEP_PX}, has_bleed \in BOOLEAN :
         /\ cols * rows <= MaxCells
         /\ \E img_paths \in SheetInputs(cols * rows, IF is_back THEN "b" ELSE "a", has_bleed) :
            LET g == compute_grid_origin_centered_with_margins(A4[1], A4[2],
                         cols * POKER_W_PT, rows * POKER_H_PT, MARGINS_PT,
                         RESERVE_TOP_PT, BOTTOM_RESERVED_PT, RESERVE_LEFT_PT, RESERVE_RIGHT_PT)
                o == IF is_back THEN << g[1] + BACK_X_OFFSET_PT, g[2] + BACK_Y_OFFSET_PT >> ELSE g
            IN  sheet' = SheetRecord("place_images_grid_inner", img_paths, o,
                             POKER_W_PT, POKER_H_PT, cols, rows, is_back, keep,
                             place_images_grid_inner(img_paths, o[1], o[2], POKER_W_PT, POKER_H_PT,
                                                     cols, rows, is_back, keep))
    /\ UNCHANGED << PIL, CUTMARK_LEN_PT_STD, CARD_FORMATS, geomVars, cacheVars, mainVars, plan >>

\* one front or back page of the bleed branch of generate_pdf
PlaceImagesBleedGrid ==
    /\ sheet.fn = "none"
    /\ \E cols \in 1..MaxCells, rows \in 1..MaxCells, is_back \in BOOLEAN :
         /\ cols * rows <= MaxCells
         /\ \E img_paths \in SheetInputs(cols * rows, IF is_back THEN "b" ELSE "a", TRUE) :
            LET box == get_bleed_box_size_pt(POKER_W_PT, POKER_H_PT,
                           INNER_W_PX, INNER_H_PX, BLEED_W_PX, BLEED_H_PX)
                page == landscape(A4)
                g == compute_grid_origin_centered_with_margins(page[1], page[2],
                         cols * box[1], rows * box[2], MARGINS_PT,
                         RESERVE_TOP_PT, BOTTOM_RESERVED_PT, RESERVE_LEFT_PT, RESERVE_RIGHT_PT)
                o == IF is_back THEN << g[1] + BACK_X_OFFSET_PT, g[2] + BACK_Y_OFFSET_PT >> ELSE g
            IN  sheet' = SheetRecord("place_images_bleed_grid", img_paths, o,
                             box[1], box[2], cols, rows, is_back, 0,
                             place_images_bleed_grid(img_paths, o[1], o[2], box[1], box[2],
                                                     cols, rows, is_back))
                         @@ [ marks |-> draw_cutmarks_bleed_outer_only(o[1], o[2], cols, rows,
                                                                       box[1], box[2]) ]
    /\ UNCHANGED << PIL, CUTMARK_LEN_PT_STD, CARD_FORMATS, geomVars, cacheVars, mainVars, plan >>

\* the Poker format applied, the image library present
InitGrid ==
    /\ PIL = TRUE
    /\ CARD_FORMATS = BUILTIN_FORMATS
    /\ GeometryIs(apply_card_format(BUILTIN_FORMATS[1]))
    /\ InitMain
    /\ InitCacheIdle
    /\ InitGridIdle

NextGrid ==
    \/ PlaceImagesGridInner
    \/ PlaceImagesBleedGrid

SpecGrid == InitGrid /\ [][NextGrid]_vars

Placed == sheet.fn # "none"

\* indices of the handed list that hold an existing image and fit on the sheet
SheetFiles ==
    { idx \in 0..(sheet.cols * sheet.rows - 1) :
          idx < Len(sheet.img_paths) /\ Exists(sheet.img_paths[idx + 1]) }

\* C4: the image of list index i is drawn in the cell of row i div C and column
\* i mod C on a front side, and of column C-1-(i mod C) in the same row on a
\* back side, in both placement functions; columns count from the left edge of
\* the grid and row 0 is the topmost row (its cells end at the top of the grid).
C4_CellOfIndex ==
    Placed =>
        /\ { d.idx : d \in sheet.draws } = SheetFiles
        /\ \A d \in sheet.draws :
              LET k == d.idx % sheet.cols
              IN  /\ d.row = d.idx \div sheet.cols
                  /\ d.col = (IF sheet.is_back THEN sheet.cols - 1 - k ELSE k)
                  /\ d.x = sheet.x0 + d.col * sheet.box_w
                  /\ d.y + (d.row + 1) * sheet.box_h = sheet.y0 + sheet.rows * sheet.box_h
        /\ \A d1, d2 \in sheet.draws :
              /\ (d1.idx = d2.idx => d1 = d2)
              /\ (d1.row < d2.row => d1.y > d2.y)

\* a bleed-grid back page of 3 columns: index 0 in the top right cell, index 4
\* in the middle of the row below it
C4_Witness ==
    /\ sheet.fn = "place_images_bleed_grid"
    /\ sheet.is_back /\ sheet.cols = 3 /\ sheet.rows = 2
    /\ \E d0, d4 \in sheet.draws :
          /\ d0.idx = 0 /\ d0.row = 0 /\ d0.col = 2
          /\ d4.idx = 4 /\ d4.row = 1 /\ d4.col = 1
          /\ d0.y > d4.y /\ d0.x > d4.x

\* the cell (row, col) of the drawn sheet holds an image
Occupied(row, col) == \E d \in sheet.draws : d.row = row /\ d.col = col

\* C5: place_images_grid_inner gives keep 0 to every edge of a drawn cell whose
\* neighbour across that edge is occupied, on fronts and on mirrored backs, for
\* every occupancy pattern; a cell with four occupied neighbours keeps nothing.
C5_NoKeepOnInnerEdges ==
    (Placed /\ sheet.fn = "place_images_grid_inner") =>
        \A d \in sheet.draws :
            /\ (Occupied(d.row, d.col - 1) => d.keep_left = 0)
            /\ (Occupied(d.row, d.col + 1) => d.keep_right = 0)
            /\ (Occupied(d.row - 1, d.col) => d.keep_top = 0)
            /\ (Occupied(d.row + 1, d.col) => d.keep_bottom = 0)
            /\ ((/\ Occupied(d.row, d.col - 1) /\ Occupied(d.row, d.col + 1)
                 /\ Occupied(d.row - 1, d.col) /\ Occupied(d.row + 1, d.col))
                  => (d.keep_left = 0 /\ d.keep_right = 0 /\ d.keep_top = 0 /\ d.keep_bottom = 0))

\* a 3 x 3 back page with outer bleed and a hole in the top row: the centre cell
\* has four occupied neighbours and keeps nothing, while a cell next to the hole
\* keeps the bleed on the edge facing it
C5_Witness ==
    /\ sheet.fn = "place_images_grid_inner"
    /\ sheet.is_back /\ sheet.keep = OUTER_BLEED_KEEP_PX /\ sheet.cols = 3 /\ sheet.rows = 3
    /\ ~Occupied(0, 0)
    /\ \E d \in sheet.draws :
          /\ d.row = 1 /\ d.col = 1
          /\ Occupied(0, 1) /\ Occupied(2, 1) /\ Occupied(1, 0) /\ Occupied(1, 2)
          /\ d.keep_left = 0 /\ d.keep_right = 0 /\ d.keep_top = 0 /\ d.keep_bottom = 0
    /\ \E d \in sheet.draws : d.row = 0 /\ d.col = 1 /\ d.keep_left = OUTER_BLEED_KEEP_PX

-----------------------------------------------------------------------------
(* Image preprocessing: preprocess_card_image_for_pdf and its cache           *)

\* QUALITY_PRESETS.get(quality_key, QUALITY_PRESETS["high"])["dpi"]
preset_dpi(quality) ==
    IF quality = "medium" THEN 200
    ELSE IF quality = "low" THEN 120
    ELSE 300

\* A box in inches as the pair of fractions wn / (20 * wd) x hn / (20 * hd); the
\* factor 20 divides every dpi of QUALITY_PRESETS and keeps the products small.
\* The card box (POKER_W_PT / 72.0, POKER_H_PT / 72.0) ...
card_box_inches ==
    [ kind |-> "box", wn |-> POKER_W_PT, wd |-> 720, hn |-> POKER_H_PT, hd |-> 720 ]

\* ... and get_bleed_box_inches(): the card box scaled by BLEED_*_PX / INNER_*_PX
get_bleed_box_inches ==
    [ kind |-> "box", wn |-> POKER_W_PT * BLEED_W_PX, wd |-> 720 * INNER_W_PX,
                      hn |-> POKER_H_PT * BLEED_H_PX, hd |-> 720 * INNER_H_PX ]

NoBox == [ kind |-> "none", wn |-> 0, wd |-> 1, hn |-> 0, hd |-> 1 ]

\* target_pixels_for_box_inches: int(round(w_in * dpi)), int(round(h_in * dpi))
target_pixels_for_box_inches(box, dpi) ==
    << RoundDiv(box.wn * (dpi \div 20), box.wd), RoundDiv(box.hn * (dpi \div 20), box.hd) >>

\* Paths.  A source image of the card folder, and a file of TMP_DIR whose name
\* f"{stem}_{quality_key}_{md5(path, quality_key, box)}{ext}" is kept as the
\* values it is made of (distinct inputs give distinct names).
NonePath == [ dir |-> "None", stem |-> "", quality |-> "", box |-> NoBox, ext |-> "" ]
SrcPath(img) == [ dir |-> "src", stem |-> img.name, quality |-> "", box |-> NoBox, ext |-> ".png" ]
TmpPath(img, quality, box) ==
    [ dir |-> "tmp", stem |-> img.name, quality |-> quality, box |-> box,
      ext |-> IF quality = "lossless" THEN ".png" ELSE ".jpg" ]

\* Path.exists(): source images stay in place during a run, a TMP_DIR file
\* exists once it has been saved
PathExists(files, path) ==
    \/ path.dir = "src"
    \/ path.dir = "tmp" /\ path \in DOMAIN files

\* d[key] = value on a dict kept as a function
DictSet(d, key, value) ==
    [ k \in (DOMAIN d) \cup {key} |-> IF k = key THEN value ELSE d[k] ]

\* the lookup that never finds an entry
cache_get_miss(cache, files, cache_key) == NonePath

\* cached = _CONVERT_CACHE.get(cache_key); "cached and cached.exists()" holds
\* iff the result is not NonePath
cache_get(cache, files, cache_key) ==
    IF cache_key \in DOMAIN cache /\ PathExists(files, cache[cache_key])
    THEN cache[cache_key]
    ELSE NonePath

\* crop_bleed=True, first step: an exact bleed canvas loses its fixed borders,
\* a larger image loses the same share of its width and height
inner_border_crop(w, h) ==
    IF w = BLEED_W_PX /\ h = BLEED_H_PX
    THEN << (w - BLEED_RIGHT_BOTTOM_PX) - BLEED_LEFT_TOP_PX,
            (h - BLEED_RIGHT_BOTTOM_PX) - BLEED_LEFT_TOP_PX >>
    ELSE IF w >= BLEED_W_PX /\ h >= BLEED_H_PX
    THEN LET left == RoundDiv(w * BLEED_LEFT_TOP_PX, BLEED_W_PX)
             top == RoundDiv(h * BLEED_LEFT_TOP_PX, BLEED_H_PX)
             right == w - RoundDiv(w * BLEED_RIGHT_BOTTOM_PX, BLEED_W_PX)
             bottom == h - RoundDiv(h * BLEED_RIGHT_BOTTOM_PX, BLEED_H_PX)
         IN  << right - left, bottom - top >>
    ELSE << w, h >>

\* second step: _center_crop_exact to the inner size of an image still larger
inner_enforce(sz) ==
    IF sz[1] >= INNER_W_PX /\ sz[2] >= INNER_H_PX
       /\ (sz[1] # INNER_W_PX \/ sz[2] # INNER_H_PX)
    THEN << INNER_W_PX, INNER_H_PX >>
    ELSE sz

\* third step: an image below the inner size on some axis is stretched to it
inner_upscale(sz) ==
    IF sz[1] < INNER_W_PX \/ sz[2] < INNER_H_PX
    THEN [ w |-> INNER_W_PX, h |-> INNER_H_PX, resized |-> TRUE ]
    ELSE [ w |-> sz[1], h |-> sz[2], resized |-> FALSE ]

\* an image left at the size it has
Unscaled(sz) == [ w |-> sz[1], h |-> sz[2], resized |-> FALSE ]

\* the inner branch without its final stretch of undersized images
crop_to_inner_noresize(w, h) ==
    Unscaled(inner_enforce(inner_border_crop(w, h)))

\* crop_bleed=True: border crop, centre crop to the inner size, stretch
crop_to_inner(w, h) ==
    inner_upscale(inner_enforce(inner_border_crop(w, h)))

\* crop_bleed=False, first step: _center_crop_exact to the bleed size of an
\* image at least that large on both axes
bleed_enforce(w, h) ==
    IF w >= BLEED_W_PX /\ h >= BLEED_H_PX /\ (w # BLEED_W_PX \/ h # BLEED_H_PX)
    THEN << BLEED_W_PX, BLEED_H_PX >>
    ELSE << w, h >>

\* second step: when the aspect ratio is off, a centre crop along the axis in excess
bleed_ratio_fix(sz) ==
    IF sz[1] * BLEED_H_PX # sz[2] * BLEED_W_PX
    THEN IF sz[1] * BLEED_H_PX > sz[2] * BLEED_W_PX
         THEN << RoundDiv(sz[2] * BLEED_W_PX, BLEED_H_PX), sz[2] >>
         ELSE << sz[1], RoundDiv(sz[1] * BLEED_H_PX, BLEED_W_PX) >>
    ELSE sz

\* the bleed branch without its centre crop of larger images
crop_to_bleed_nocrop(w, h) ==
    Unscaled(bleed_ratio_fix(<< w, h >>))

\* crop_bleed=False: centre crop to the bleed size, then the ratio fix
crop_to_bleed(w, h) ==
    Unscaled(bleed_ratio_fix(bleed_enforce(w, h)))

\* PIL Image.thumbnail((tw, th)) for an image larger than the target on some
\* axis: the largest size inside the target that keeps the aspect ratio, each
\* side at least 1 (round_aspect picks the neighbour of the exact value whose
\* ratio is nearer to the image's)
thumbnail(w, h, tw, th) ==
    IF tw >= w /\ th >= h THEN << w, h >>
    ELSE IF tw * h >= th * w
    THEN LET fl == (th * w) \div h
             ce == IF (th * w) % h = 0 THEN fl ELSE fl + 1
             x == IF Abs(w * th - fl * h) <= Abs(w * th - ce * h) THEN fl ELSE ce
         IN  << Max(x, 1), th >>
    ELSE LET fl == (tw * h) \div w
             ce == IF (tw * h) % w = 0 THEN fl ELSE fl + 1
             y == IF fl = 0 THEN 0
                  ELSE IF Abs(w * fl - tw * h) * ce <= Abs(w * ce - tw * h) * fl THEN fl ELSE ce
         IN  << tw, Max(y, 1) >>

\* im.thumbnail to the target pixel box t of an image exceeding it on some axis
downsample(c, t) ==
    IF c.w > t[1] \/ c.h > t[2]
    THEN thumbnail(c.w, c.h, t[1], t[2])
    ELSE << c.w, c.h >>

\* the size saved: a lossless preset keeps the cropped size, a lossy one
\* shrinks an image larger than the target pixel box
saved_size(c, quality, box) ==
    IF quality = "lossless"
    THEN << c.w, c.h >>
    ELSE downsample(c, target_pixels_for_box_inches(box, preset_dpi(quality)))

\* a call that returns `result` without having run the crop steps
Returned(cache_key, result, stage, cache1, files1) ==
    [ key |-> cache_key, result |-> result, stage |-> stage,
      cache |-> cache1, files |-> files1,
      crop_w |-> 0, crop_h |-> 0, resized |-> FALSE, out_w |-> 0, out_h |-> 0 ]

\* a call that cropped its source to c, saved it with size o as out_file and
\* stored out_file in the cache
Saved(cache_key, out_file, cache, files, c, o, crop_bleed) ==
    [ key |-> cache_key, result |-> out_file, stage |-> "saved",
      cache |-> DictSet(cache, cache_key, out_file),
      files |-> DictSet(files, out_file, [ w |-> o[1], h |-> o[2], crop_bleed |-> crop_bleed ]),
      crop_w |-> c.w, crop_h |-> c.h, resized |-> c.resized, out_w |-> o[1], out_h |-> o[2] ]

\* the try block: Image.open, the crop steps of the mode, save
process_image(cache_key, out_file, cache, files, img, quality, box, crop_bleed, c) ==
    Saved(cache_key, out_file, cache, files, c, saved_size(c, quality, box), crop_bleed)

\* the except clause that lets the exception leave the function
except_reraise(cache_key, img_path, cache, files) ==
    Returned(cache_key, NonePath, "raised", cache, files)

\* "except Exception": the source path is stored in the cache and returned
except_fallback(cache_key, img_path, cache, files) ==
    Returned(cache_key, img_path, "failed", DictSet(cache, cache_key, img_path), files)

\* the call past its cache test
prepare_image(cache_key, img_path, out_file, cache, files, img, quality, box, crop_bleed) ==
    IF ~PIL
    THEN Returned(cache_key, img_path, "passthrough", DictSet(cache, cache_key, img_path), files)
    ELSE IF PathExists(files, out_file)
    THEN Returned(cache_key, out_file, "existing", DictSet(cache, cache_key, out_file), files)
    ELSE IF ~img.ok
    THEN except_fallback(cache_key, img_path, cache, files)
    ELSE process_image(cache_key, out_file, cache, files, img, quality, box, crop_bleed,
                       IF crop_bleed THEN crop_to_inner(img.w, img.h)
                       ELSE crop_to_bleed(img.w, img.h))

\* the call from its cache test on, for the key and the cache answer it has
lookup_or_prepare(cache_key, cached, cache, files, img, quality, box, crop_bleed) ==
    IF cached # NonePath
    THEN Returned(cache_key, cached, "cached", cache, files)
    ELSE prepare_image(cache_key, SrcPath(img), TmpPath(img, quality, box),
                       cache, files, img, quality, box, crop_bleed)

CacheKey(img, quality, box, crop_bleed) ==
    << img.name, quality, box, IF crop_bleed THEN "crop" ELSE "nocrop" >>

\* preprocess_card_image_for_pdf(img_path, quality_key, box_inches, crop_bleed):
\* the returned path, the cache and TMP_DIR after the call, and how far the call
\* went: "cached" (cache hit), "passthrough" (no image library), "existing"
\* (out_file already in TMP_DIR), "failed" (exception while processing, the
\* source path is returned) or "saved" (processed and written)
preprocess_card_image_for_pdf(cache, files, img, quality, box, crop_bleed) ==
    lookup_or_prepare(CacheKey(img, quality, box, crop_bleed),
                      cache_get(cache, files, CacheKey(img, quality, box, crop_bleed)),
                      cache, files, img, quality, box, crop_bleed)

\* preprocess_card_image_outer_bleed: the amounts kept at the four edges
Keep(l, r, t, b) == [ kind |-> "outerbleed", l |-> l, r |-> r, t |-> t, b |-> b ]

\* f"rot{rotate_degrees}"
RotTag(rotate_degrees) == IF rotate_degrees = 0 THEN "rot0" ELSE "rot180"

OuterKey(img, quality, keep, rotate_degrees) ==
    << img.name, quality, keep, RotTag(rotate_degrees) >>

\* TMP_DIR / f"{stem}_outerbleed_{md5(cache_key)}{ext}"
OuterPath(img, quality, keep, rotate_degrees) ==
    [ dir |-> "tmp", stem |-> img.name, quality |-> quality,
      box |-> [ keep |-> keep, rot |-> RotTag(rotate_degrees) ],
      ext |-> IF quality = "lossless" THEN ".png" ELSE ".jpg" ]

\* has_bleed branch: what is left of the exact bleed canvas after the cuts ...
outer_cut(keep) ==
    << BLEED_W_PX
         - Max(0, BLEED_LEFT_TOP_PX - Min(keep.l, BLEED_LEFT_TOP_PX))
         - Max(0, BLEED_RIGHT_BOTTOM_PX - Min(keep.r, BLEED_RIGHT_BOTTOM_PX)),
       BLEED_H_PX
         - Max(0, BLEED_LEFT_TOP_PX - Min(keep.t, BLEED_LEFT_TOP_PX))
         - Max(0, BLEED_RIGHT_BOTTOM_PX - Min(keep.b, BLEED_RIGHT_BOTTOM_PX)) >>

\* ... and the target size: the inner size plus the bleed left standing
outer_target(keep) ==
    << INNER_W_PX + Min(keep.l, BLEED_LEFT_TOP_PX) + Min(keep.r, BLEED_RIGHT_BOTTOM_PX),
       INNER_H_PX + Min(keep.t, BLEED_LEFT_TOP_PX) + Min(keep.b, BLEED_RIGHT_BOTTOM_PX) >>

\* centre crop of a larger image to the target, resize of any other size
outer_fit(sz, target) ==
    IF sz[1] > target[1] \/ sz[2] > target[2] THEN Unscaled(target)
    ELSE IF sz # target THEN [ w |-> target[1], h |-> target[2], resized |-> TRUE ]
    ELSE Unscaled(sz)

\* the size the image has when it is saved (a rotation by 0 or 180 degrees
\* keeps the size): with bleed in the source the inner size plus the kept
\* edges, without it the inner size, cropped or stretched
outer_bleed_size(w, h, keep) ==
    IF w >= BLEED_W_PX /\ h >= BLEED_H_PX
    THEN outer_fit(outer_cut(keep), outer_target(keep))
    ELSE IF w >= INNER_W_PX /\ h >= INNER_H_PX
    THEN Unscaled(<< INNER_W_PX, INNER_H_PX >>)
    ELSE [ w |-> INNER_W_PX, h |-> INNER_H_PX, resized |-> TRUE ]

\* a crop box (left, upper, right, lower) of the image library, in pixels
Box(l, t, r, b) == [ l |-> l, t |-> t, r |-> r, b |-> b ]
NoRegion == Box(0, 0, 0, 0)

\* im.crop(box) of an image that is itself the part `of` of another one
crop(of, box) == Box(of.l + box.l, of.t + box.t, of.l + box.r, of.t + box.b)

\* the part of the source that a box of the image rotated by rotate_degrees
\* shows: im.rotate(180) puts source pixel (x, y) at (w - 1 - x, h - 1 - y)
rotated_box(box, w, h, rotate_degrees) ==
    IF rotate_degrees % 360 = 0 THEN box
    ELSE Box(w - box.r, h - box.b, w - box.l, h - box.t)

\* has_bleed branch: centre crop to the bleed canvas, the cuts at the four
\* edges, and the centre crop to the target size
outer_bleed_crops(w, h, keep) ==
    LET canvas == IF w # BLEED_W_PX \/ h # BLEED_H_PX
                  THEN crop(Box(0, 0, w, h),
                            Box((w - BLEED_W_PX) \div 2, (h - BLEED_H_PX) \div 2,
                                (w - BLEED_W_PX) \div 2 + BLEED_W_PX,
                                (h - BLEED_H_PX) \div 2 + BLEED_H_PX))
                  ELSE Box(0, 0, w, h)
        l_cut == Max(0, BLEED_LEFT_TOP_PX - Min(keep.l, BLEED_LEFT_TOP_PX))
        t_cut == Max(0, BLEED_LEFT_TOP_PX - Min(keep.t, BLEED_LEFT_TOP_PX))
        r_cut == Max(0, BLEED_RIGHT_BOTTOM_PX - Min(keep.r, BLEED_RIGHT_BOTTOM_PX))
        b_cut == Max(0, BLEED_RIGHT_BOTTOM_PX - Min(keep.b, BLEED_RIGHT_BOTTOM_PX))
        cut == crop(canvas, Box(l_cut, t_cut, BLEED_W_PX - r_cut, BLEED_H_PX - b_cut))
        target == outer_target(keep)
        cx == ((cut.r - cut.l) - target[1]) \div 2
        cy == ((cut.b - cut.t) - target[2]) \div 2
    IN  IF cut.r - cut.l > target[1] \/ cut.b - cut.t > target[2]
        THEN crop(cut, Box(cx, cy, cx + target[1], cy + target[2]))
        ELSE cut

\* the part of the source image that the saved raster shows: the crops are
\* made on the rotated image
outer_bleed_region(w, h, keep, rotate_degrees) ==
    rotated_box(
        IF w >= BLEED_W_PX /\ h >= BLEED_H_PX
        THEN outer_bleed_crops(w, h, keep)
        ELSE IF w >= INNER_W_PX /\ h >= INNER_H_PX
        THEN Box((w - INNER_W_PX) \div 2, (h - INNER_H_PX) \div 2,
                 (w - INNER_W_PX) \div 2 + INNER_W_PX, (h - INNER_H_PX) \div 2 + INNER_H_PX)
        ELSE Box(0, 0, w, h),
        w, h, rotate_degrees)

\* the try block of preprocess_card_image_outer_bleed
outer_process(cache_key, out_file, cache, files, c) ==
    Saved(cache_key, out_file, cache, files, c, << c.w, c.h >>, TRUE)

\* the call past its cache test (no look for an existing out_file here)
outer_prepare(cache_key, img_path, out_file, cache, files, img, keep) ==
    IF ~PIL
    THEN Returned(cache_key, img_path, "passthrough", DictSet(cache, cache_key, img_path), files)
    ELSE IF ~img.ok
    THEN except_fallback(cache_key, img_path, cache, files)
    ELSE outer_process(cache_key, out_file, cache, files, outer_bleed_size(img.w, img.h, keep))

outer_lookup_or_prepare(cache_key, cached, cache, files, img, quality, keep, rotate_degrees) ==
    IF cached # NonePath
    THEN Returned(cache_key, cached, "cached", cache, files)
    ELSE outer_prepare(cache_key, SrcPath(img), OuterPath(img, quality, keep, rotate_degrees),
                       cache, files, img, keep)

\* preprocess_card_image_outer_bleed(img_path, quality_key, keep_left_px,
\* keep_right_px, keep_top_px, keep_bottom_px, rotate_degrees)
preprocess_card_image_outer_bleed(cache, files, img, quality, keep, rotate_degrees) ==
    outer_lookup_or_prepare(OuterKey(img, quality, keep, rotate_degrees),
                            cache_get(cache, files, OuterKey(img, quality, keep, rotate_degrees)),
                            cache, files, img, quality, keep, rotate_degrees)

\* quality keys a run can carry (prompt_quality / _map_quality_value), and the
\* two boxes the layouts hand over
QualityKeys == { "lossless", "high", "low" }
BoxesInches == { card_box_inches, get_bleed_box_inches }

\* what a call leaves behind: the cache, TMP_DIR, and the record of the call
CallRecord(fn, r, img, box, crop_bleed, repeat, region) ==
    /\ CONVERT_CACHE' = r.cache
    /\ tmp_files' = r.files
    /\ first_result' = IF repeat THEN first_result
                       ELSE DictSet(first_result, r.key,
                                    [ path |-> r.result, n |-> last_call.n + 1 ])
    /\ last_call' = [ fn |-> fn, n |-> last_call.n + 1,
                      img |-> img, quality_key |-> quality_key, box |-> box,
                      crop_bleed |-> crop_bleed, key |-> r.key,
                      result |-> r.result, stage |-> r.stage,
                      crop_w |-> r.crop_w, crop_h |-> r.crop_h, resized |-> r.resized,
                      out_w |-> r.out_w, out_h |-> r.out_h,
                      repeat |-> repeat, region |-> region,
                      first |-> IF repeat THEN first_result[r.key].path ELSE r.result,
                      first_n |-> IF repeat THEN first_result[r.key].n
                                  ELSE last_call.n + 1 ]

\* one call of preprocess_card_image_for_pdf on an image of the card folder
Preprocess ==
    /\ last_call.n < MaxCalls
    /\ \E img \in folder_images, box \in BoxesInches, crop_bleed \in BOOLEAN :
         CallRecord("preprocess_card_image_for_pdf",
                    preprocess_card_image_for_pdf(CONVERT_CACHE, tmp_files, img,
                                                  quality_key, box, crop_bleed),
                    img, box, crop_bleed,
                    CacheKey(img, quality_key, box, crop_bleed) \in DOMAIN first_result,
                    NoRegion)
    /\ UNCHANGED << PIL, CUTMARK_LEN_PT_STD, CARD_FORMATS, geomVars, folder_images, quality_key, mainVars, gridVars >>

\* the edge amounts of the calls followed: a card alone on its sheet, and a
\* card of a middle column of a gutterfold page
OuterKeeps ==
    { Keep(OUTER_BLEED_KEEP_PX, OUTER_BLEED_KEEP_PX, OUTER_BLEED_KEEP_PX, OUTER_BLEED_KEEP_PX),
      Keep(0, 0, OUTER_BLEED_KEEP_PX, OUTER_BLEED_KEEP_PX) }

\* one call of preprocess_card_image_outer_bleed on an image of the card folder
PreprocessOuterBleed ==
    /\ last_call.n < MaxOuterCalls
    /\ \E img \in folder_images, keep \in OuterKeeps, rotate_degrees \in {0, 180} :
         CallRecord("preprocess_card_image_outer_bleed",
                    preprocess_card_image_outer_bleed(CONVERT_CACHE, tmp_files, img,
                                                      quality_key, keep, rotate_degrees),
                    img, keep, TRUE,
                    OuterKey(img, quality_key, keep, rotate_degrees) \in DOMAIN first_result,
                    IF PIL /\ img.ok
                    THEN outer_bleed_region(img.w, img.h, keep, rotate_degrees)
                    ELSE NoRegion)
    /\ UNCHANGED << PIL, CUTMARK_LEN_PT_STD, CARD_FORMATS, geomVars, folder_images, quality_key, mainVars, gridVars >>

\* pixel sizes of the decodable image of the folder: exactly bleed-sized, larger
\* than bleed (same ratio, slightly, on one axis only), between inner and bleed,
\* exactly inner, larger on one axis and smaller on the other, and smaller
ImageSizes ==
    { << BLEED_W_PX, BLEED_H_PX >>,
      << 2 * BLEED_W_PX, 2 * BLEED_H_PX >>,
      << BLEED_W_PX + 1, BLEED_H_PX + 40 >>,
      << BLEED_W_PX + 300, BLEED_H_PX >>,
      << INNER_W_PX + 20, INNER_H_PX + 30 >>,
      << INNER_W_PX, INNER_H_PX >>,
      << BLEED_W_PX + 100, INNER_H_PX - 50 >>,
      << INNER_W_PX - 50, BLEED_H_PX + 100 >>,
      << INNER_W_PX \div 2, INNER_H_PX \div 2 >>,
      << 1, 1 >> }

\* a card folder with one decodable image and one file that cannot be decoded
Folders ==
    { { [ name |-> "card_001a", w |-> sz[1], h |-> sz[2], ok |-> TRUE ],
        [ name |-> "card_002a", w |-> 0, h |-> 0, ok |-> FALSE ] } : sz \in ImageSizes }

\* Poker or Mini Euro applied, the cache cleared, with or without the image library
InitImage ==
    /\ PIL \in BOOLEAN
    /\ CARD_FORMATS = BUILTIN_FORMATS
    /\ \E i \in {1, 3} : GeometryIs(apply_card_format(BUILTIN_FORMATS[i]))
    /\ InitMain
    /\ InitGridIdle
    /\ InitCacheEmpty
    /\ folder_images \in Folders
    /\ quality_key \in QualityKeys

NextImage == Preprocess

SpecImage == InitImage /\ [][NextImage]_vars

Called == last_call.fn # "none"

\* the observed call decoded its source and ran the crop steps
RanCropSteps == Called /\ last_call.stage = "saved"

\* the observed call had to prepare its image itself: the image library is
\* there and neither the cache nor TMP_DIR already held a file for it
HadToProcess == Called /\ last_call.stage \in {"saved", "failed"}

\* C8: in inner crop mode every decodable source, whatever its pixel size, leaves
\* the crop / upscale steps with exactly INNER_W_PX x INNER_H_PX pixels; a source
\* that is too small is stretched to that size, and the call is never rejected.
C8_InnerModeEndsAtInnerSize ==
    (HadToProcess /\ last_call.crop_bleed /\ last_call.img.ok) =>
        /\ last_call.stage = "saved"
        /\ last_call.crop_w = INNER_W_PX
        /\ last_call.crop_h = INNER_H_PX
        /\ ((last_call.img.w < INNER_W_PX \/ last_call.img.h < INNER_H_PX) => last_call.resized)
        /\ (quality_key = "lossless" =>
               /\ tmp_files[last_call.result].w = INNER_W_PX
               /\ tmp_files[last_call.result].h = INNER_H_PX)

\* an inner-mode call on a source wider than the bleed canvas but lower than the
\* inner size: stretched to the inner size
C8_Witness ==
    /\ RanCropSteps /\ last_call.crop_bleed
    /\ last_call.img.w > BLEED_W_PX /\ last_call.img.h < INNER_H_PX
    /\ last_call.resized
    /\ last_call.crop_w = INNER_W_PX /\ last_call.crop_h = INNER_H_PX

\* C9: in bleed crop mode the result is never larger than the source on either
\* axis (nothing is stretched), and a source of at least BLEED_W_PX x BLEED_H_PX
\* on both axes is exactly BLEED_W_PX x BLEED_H_PX before the lossy downscaling.
C9_BleedModeNeverUpscales ==
    (RanCropSteps /\ ~last_call.crop_bleed) =>
        /\ ~last_call.resized
        /\ last_call.crop_w <= last_call.img.w /\ last_call.crop_h <= last_call.img.h
        /\ last_call.out_w <= last_call.crop_w /\ last_call.out_h <= last_call.crop_h
        /\ tmp_files[last_call.result].w <= last_call.img.w
        /\ tmp_files[last_call.result].h <= last_call.img.h
        /\ ((last_call.img.w >= BLEED_W_PX /\ last_call.img.h >= BLEED_H_PX) =>
               (last_call.crop_w = BLEED_W_PX /\ last_call.crop_h = BLEED_H_PX))

\* a bleed-mode call on a source twice the bleed canvas: cropped to the bleed
\* size, then downscaled by a lossy preset
C9_Witness ==
    /\ RanCropSteps /\ ~last_call.crop_bleed
    /\ last_call.img.w = 2 * BLEED_W_PX /\ last_call.img.h = 2 * BLEED_H_PX
    /\ last_call.crop_w = BLEED_W_PX /\ last_call.crop_h = BLEED_H_PX
    /\ last_call.out_w < last_call.crop_w /\ last_call.out_h < last_call.crop_h

\* C10: a call whose (source path, quality preset, box, crop mode) tuple was
\* already used in this run returns the path the first such call returned and
\* returns it from the cache, without processing, whatever was called in between.
C10_RepeatedCallFromCache ==
    (Called /\ last_call.repeat) =>
        /\ last_call.result = last_call.first
        /\ last_call.stage = "cached"

\* the third call repeats the first one after a call with another tuple, and
\* gets the prepared TMP_DIR file again
C10_Witness ==
    /\ Called /\ last_call.repeat
    /\ last_call.n = 3 /\ last_call.first_n = 1
    /\ Cardinality(DOMAIN first_result) = 2
    /\ last_call.result.dir = "tmp"
    /\ last_call.stage = "cached"

-----------------------------------------------------------------------------
(* Both preprocessing functions on one cache                                  *)

\* a call of preprocess_card_image_for_pdf in such a run
PreprocessForPdf ==
    /\ last_call.n < MaxOuterCalls
    /\ Preprocess

NextOuter ==
    \/ PreprocessForPdf
    \/ PreprocessOuterBleed

SpecOuter == InitImage /\ [][NextOuter]_vars

CalledAny == last_call.fn # "none"

\* C11: a call of preprocess_card_image_for_pdf or preprocess_card_image_outer_bleed
\* on a source that cannot be decoded returns the unprocessed source path, leaves
\* that path in the cache under the call's key, writes no file for the source, and
\* lets no exception out; with the image library present the first such call ends
\* in the except clause.
C11_FailureFallsBackToSource ==
    (CalledAny /\ ~last_call.img.ok) =>
        /\ last_call.stage # "raised"
        /\ last_call.result = SrcPath(last_call.img)
        /\ last_call.key \in DOMAIN CONVERT_CACHE
        /\ CONVERT_CACHE[last_call.key] = SrcPath(last_call.img)
        /\ \A f \in DOMAIN tmp_files : f.stem # last_call.img.name
        /\ ((PIL /\ ~last_call.repeat) => last_call.stage = "failed")

\* the undecodable image went through both functions: the second call, of
\* preprocess_card_image_outer_bleed, ended in its except clause, and the cache
\* holds the source path under the keys of both calls
C11_Witness ==
    /\ last_call.fn = "preprocess_card_image_outer_bleed"
    /\ last_call.n = 2 /\ ~last_call.img.ok
    /\ last_call.stage = "failed"
    /\ Cardinality(DOMAIN CONVERT_CACHE) = 2
    /\ \A k \in DOMAIN CONVERT_CACHE : CONVERT_CACHE[k] = SrcPath(last_call.img)
    /\ \E k \in DOMAIN CONVERT_CACHE : k[4] \in {"crop", "nocrop"}

-----------------------------------------------------------------------------
(* Placement of one gutterfold page: place_images_gutterfold_grid             *)

\* the pixel size of a source of the placement model: the bleed canvas, or the
\* inner size for a source without bleed
PxSize(p) ==
    IF p.has_bleed THEN << BLEED_W_PX, BLEED_H_PX >> ELSE << INNER_W_PX, INNER_H_PX >>

AsSize(c) == << c.w, c.h >>

\* the pixel size of what preprocess_card_image_outer_bleed returns for p
processed_outer_px(p, keep) ==
    IF PIL THEN AsSize(outer_bleed_size(PxSize(p)[1], PxSize(p)[2], keep)) ELSE PxSize(p)

\* the rotation of the pixels preprocess_card_image_outer_bleed returns against
\* the source: im.rotate(rotate_degrees) with the image library, the source
\* itself without it
processed_outer_rot(rotate_degrees) ==
    IF PIL THEN rotate_degrees ELSE 0

\* drawImage(..., preserveAspectRatio=True) into the box r
fit_in_rect(size, r) == fit_centered(size, r.x, r.y, r.w, r.h)

\* draw_card_outer_bleed
draw_card_outer_bleed(size, x, y, card_w, card_h, keep) ==
    fit_in_rect(size, outer_rect(outer_scale(card_w, card_h), x, y, keep.l, keep.r, keep.t, keep.b))

\* one side of a column: with an outer-bleed amount preprocess_card_image_outer_bleed
\* and draw_card_outer_bleed, without one preprocess_card_image_for_pdf and
\* draw_image_transformed
gutterfold_draw(side, img, col, x, y, card_w, card_h, keep) ==
    [ idx |-> col, side |-> side, img |-> img, row |-> IF side = "a" THEN 0 ELSE 1, col |-> col,
      x |-> x, y |-> y,
      keep_left |-> keep.l, keep_right |-> keep.r, keep_top |-> keep.t, keep_bottom |-> keep.b,
      outer |-> keep.t > 0,
      rotate |-> IF keep.t > 0
                 THEN processed_outer_rot(IF side = "a" THEN 0 ELSE 180)
                 ELSE (IF side = "a" THEN 0 ELSE 180),
      rect |-> IF keep.t > 0
               THEN draw_card_outer_bleed(processed_outer_px(img, keep), x, y, card_w, card_h, keep)
               ELSE fit_centered(processed_inner_px, x, y, card_w, card_h) ]

\* the amounts of a column: left / right on the first / last used column
gutterfold_keep(col, first_used_col, last_used_col, outer_bleed_keep_px) ==
    Keep(IF outer_bleed_keep_px > 0 /\ col = first_used_col THEN outer_bleed_keep_px ELSE 0,
         IF outer_bleed_keep_px > 0 /\ col = last_used_col THEN outer_bleed_keep_px ELSE 0,
         IF outer_bleed_keep_px > 0 THEN outer_bleed_keep_px ELSE 0,
         IF outer_bleed_keep_px > 0 THEN outer_bleed_keep_px ELSE 0)

\* the columns of the page that hold a front or a back
used_cols(pairs_group, cols) ==
    { j \in 0..(cols - 1) :
          j < Len(pairs_group) /\ (Exists(pairs_group[j + 1].a) \/ Exists(pairs_group[j + 1].b)) }

\* the variant that mirrors the columns of the backs, as the sheet layouts do
place_images_gutterfold_mirrored(pairs_group, x0, y0, card_w, card_h, cols, fold_gutter, outer_bleed_keep_px) ==
    LET used == used_cols(pairs_group, cols)
        first_used_col == IF used = {} THEN 0 ELSE SetMin(used)
        last_used_col == IF used = {} THEN cols - 1 ELSE SetMax(used)
        here == { j \in 0..(cols - 1) : j < Len(pairs_group) }
    IN  { gutterfold_draw("a", pairs_group[j + 1].a, j, x0 + j * card_w, y0 + card_h + fold_gutter,
                          card_w, card_h,
                          gutterfold_keep(j, first_used_col, last_used_col, outer_bleed_keep_px)) :
              j \in { k \in here : Exists(pairs_group[k + 1].a) } }
        \cup
        { gutterfold_draw("b", pairs_group[j + 1].b, j, x0 + (cols - 1 - j) * card_w, y0,
                          card_w, card_h,
                          gutterfold_keep(j, first_used_col, last_used_col, outer_bleed_keep_px)) :
              j \in { k \in here : Exists(pairs_group[k + 1].b) } }

\* place_images_gutterfold_grid: fronts in the upper row, backs below the fold
place_images_gutterfold_grid(pairs_group, x0, y0, card_w, card_h, cols, fold_gutter, outer_bleed_keep_px) ==
    LET used == used_cols(pairs_group, cols)
        first_used_col == IF used = {} THEN 0 ELSE SetMin(used)
        last_used_col == IF used = {} THEN cols - 1 ELSE SetMax(used)
        here == { j \in 0..(cols - 1) : j < Len(pairs_group) }
    IN  { gutterfold_draw("a", pairs_group[j + 1].a, j, x0 + j * card_w, y0 + card_h + fold_gutter,
                          card_w, card_h,
                          gutterfold_keep(j, first_used_col, last_used_col, outer_bleed_keep_px)) :
              j \in { k \in here : Exists(pairs_group[k + 1].a) } }
        \cup
        { gutterfold_draw("b", pairs_group[j + 1].b, j, x0 + j * card_w, y0,
                          card_w, card_h,
                          gutterfold_keep(j, first_used_col, last_used_col, outer_bleed_keep_px)) :
              j \in { k \in here : Exists(pairs_group[k + 1].b) } }

\* the groups chunk(pairs, cols) can hand over: up to cols pairs, each with or
\* without a front and a back
GutterInputs(cols, has_bleed) ==
    UNION { [ 1..n -> { [ base |-> 0, a |-> a, b |-> b ] :
                            a \in { NoneImg, File(0, "a", has_bleed) },
                            b \in { NoneImg, File(0, "b", has_bleed) } } ] : n \in 0..cols }

\* one page of the gutterfold branch of generate_pdf
PlaceImagesGutterfoldGrid ==
    /\ sheet.fn = "none"
    /\ \E cols \in 1..MaxCells, keep \in {0, OUTER_BLEED_KEEP_PX}, has_bleed \in BOOLEAN :
         /\ 2 * cols <= MaxCells
         \* main: outer_keep > 0 needs all_have_bleed, which needs the image library
         /\ keep > 0 => PIL
         /\ \E pairs_group \in GutterInputs(cols, has_bleed) :
            LET page == landscape(A4)
                o == compute_grid_origin_centered_with_margins(page[1], page[2],
                         cols * POKER_W_PT, 2 * POKER_H_PT + GF_FOLD_GUTTER_PT, MARGINS_PT,
                         RESERVE_TOP_PT, BOTTOM_RESERVED_PT, 0, 0)
            IN  sheet' = SheetRecord("place_images_gutterfold_grid", pairs_group, o,
                             POKER_W_PT, POKER_H_PT, cols, 2, FALSE, keep,
                             place_images_gutterfold_grid(pairs_group, o[1], o[2],
                                 POKER_W_PT, POKER_H_PT, cols, GF_FOLD_GUTTER_PT, keep))
    /\ UNCHANGED << PIL, CUTMARK_LEN_PT_STD, CARD_FORMATS, geomVars, cacheVars, mainVars, plan >>

NextFold ==
    \/ PlaceImagesGridInner
    \/ PlaceImagesGutterfoldGrid

SpecFold == InitGrid /\ [][NextFold]_vars

\* the image of the draw lies within the card box of its cell
InsideCell(d) ==
    /\ d.rect.x >= d.x
    /\ d.rect.y >= d.y
    /\ d.rect.x + d.rect.w <= d.x + sheet.box_w
    /\ d.rect.y + d.rect.h <= d.y + sheet.box_h

-----------------------------------------------------------------------------
(* Further properties of the run of main()                                    *)

BleedKeys == {"bleed", "2x3", "2x5"}

\* main is past analyze_card_images and the bleed eligibility checks
AfterAnalysis == pc \in {"prepare", "generate", "done", "failed", "exit_no_layouts"}

\* some existing card image of the deck is below BLEED_W_PX x BLEED_H_PX
SmallImageIn(prs) ==
    \E i \in DOMAIN prs :
        \/ (Exists(prs[i].a) /\ ~prs[i].a.has_bleed)
        \/ (Exists(prs[i].b) /\ ~prs[i].b.has_bleed)

\* C13: when some existing card image is smaller than BLEED_W_PX x BLEED_H_PX, no
\* bleed layout is left in the requested set after the analysis, and when the
\* run is over every layout left in the set has been generated for every
\* requested paper size.
C13_SmallImageDropsBleedOnly ==
    (AfterAnalysis /\ SmallImageIn(pairs)) =>
        /\ ~Has(layout_keys, BleedKeys)
        /\ (RunOver => \A c \in Requested : HasDoc(c[1], c[2].suffix))

\* main is past the back handling and found cards
AfterBacks == pc \in {"analyze", "prepare", "generate", "done", "failed", "exit_no_layouts"}

PairLacksBack(prs) == \E i \in DOMAIN prs : ~Exists(prs[i].b)

\* C14: every gutterfold document, and every gutterfold generate_pdf call main
\* is about to make, has a deck in which every pair has an existing back (its own
\* or the shared card back); when a pair lacks a back after the back handling,
\* gutterfold is no longer in the requested set, and the run ends normally with
\* every layout left in the set generated for every requested paper size.
C14_GutterfoldNeedsEveryBack ==
    /\ \A d \in DOMAIN docs :
           docs[d].layout = "gutterfold" => ~PairLacksBack(docs[d].pairs)
    /\ (pc = "generate" /\ layout_keys[li] = "gutterfold") => ~PairLacksBack(pairs)
    /\ (AfterBacks /\ PairLacksBack(pairs)) =>
           /\ ~Has(layout_keys, {"gutterfold"})
           /\ pc # "failed"
           /\ (pc = "done" => \A c \in Requested : HasDoc(c[1], c[2].suffix))

\* a deck of two cards, only one with a back, after a finished run that had
\* requested all three layouts: standard and bleed are generated for both paper
\* sizes
C14_Witness ==
    /\ pc = "done"
    /\ Len(pairs) = 2
    /\ Exists(pairs[1].b) /\ ~Exists(pairs[2].b)
    /\ layout_keys = <<"standard", "bleed">>
    /\ Len(size_modes) = 2
    /\ Len(docs) = 4
    /\ \A d \in DOMAIN docs : docs[d].pairs = pairs_for_2x3 /\ pairs = pairs_for_2x3

\* find_card_pairs has returned
AfterFindPairs == pc \notin {"start", "format", "pairs"}

\* C15: when find_card_pairs finds no pair, main has ended at the "no cards"
\* message: the generation folder has not been created, generate_pdf has not
\* been called (no document, no error raised by it), and main takes no further
\* step.
C15_NoCardsEndsBeforeOutput ==
    (AfterFindPairs /\ Len(pairs) = 0) =>
        /\ pc = "exit_no_cards"
        /\ ~generation_dir
        /\ docs = << >>
        /\ raised.kind = "none"
        /\ ~ENABLED (MainBacks \/ MainAnalyze \/ MainPrepare \/ MainGenerate)

\* the empty folder, with all three layouts and both paper sizes requested
C15_Witness ==
    /\ pc = "exit_no_cards"
    /\ Len(pairs) = 0
    /\ Len(layout_keys) = 3
    /\ Len(size_modes) = 2

-----------------------------------------------------------------------------
(* generate_pdf called on its own: the card pages of one document            *)

\* decks of up to MaxDeck cards: every card with both sides, fronts only, or a
\* back for the first card only
PageDecks ==
    { Deck(n, backs, 0) : n \in 0..MaxDeck, backs \in { 1..MaxDeck, {}, {1} } }

PageSizes == { A4, letter, landscape(A4), landscape(letter) }

\* one generate_pdf call: the document it saves, or the exception it raises
GeneratePdf ==
    /\ docs = << >>
    /\ raised = NoError
    /\ \E layout_key \in {"standard", "bleed", "gutterfold"}, pagesize \in PageSizes,
          prs \in PageDecks, include_back \in BOOLEAN :
          LET r == generate_pdf(layout_key, pagesize, prs, include_back, 0)
          IN  IF r.raised.kind # "none"
              THEN /\ raised' = [r.raised EXCEPT !.layout = layout_key]
                   /\ UNCHANGED docs
              ELSE /\ docs' = << [ layout |-> layout_key, suffix |-> "",
                                   pagesize |-> pagesize, pairs |-> prs,
                                   include_back |-> include_back,
                                   per_page |-> r.per_page, pages |-> r.pages ] >>
                   /\ UNCHANGED raised
    /\ UNCHANGED << cfg, ui, PIL, CUTMARK_LEN_PT_STD, CARD_FORMATS, geomVars, cacheVars, gridVars, pc, layout_keys,
                    size_modes, pairs, include_back_pages, pairs_for_2x3, generation_dir,
                    li, si >>

InitPages ==
    /\ PIL = TRUE
    /\ InitFormatApplied
    /\ InitMain
    /\ InitCacheIdle
    /\ InitGridIdle

NextPages == GeneratePdf

SpecPages == InitPages /\ [][NextPages]_vars

\* every pair of the deck has an existing front and an existing back
BothSides(prs) == \A i \in DOMAIN prs : Exists(prs[i].a) /\ Exists(prs[i].b)

\* ceil(n / k) for k >= 1
CeilDiv(n, k) == CHOOSE s \in 0..n : (s - 1) * k < n /\ n <= s * k

\* the pages of document D are front page, back page, front page, ... of the
\* sheets 1..ceil(N/K), sheet k holding the cards (k-1)K+1 .. min(kK, N)
AlternatingSheets(D) ==
    LET N == Len(D.pairs)
        K == D.per_page
    IN  /\ Len(D.pages) = 2 * CeilDiv(N, K)
        /\ \A k \in 1..CeilDiv(N, K) :
              /\ D.pages[2 * k - 1].sheet = k /\ D.pages[2 * k - 1].side = "a"
              /\ D.pages[2 * k].sheet = k /\ D.pages[2 * k].side = "b"
              /\ D.pages[2 * k - 1].group = SubSeq(D.pairs, (k - 1) * K + 1, Min(k * K, N))
              /\ D.pages[2 * k].group = D.pages[2 * k - 1].group
        /\ (N = K) => (Len(D.pages) = 2 /\ D.per_page - Len(D.pages[1].group) = 0)

\* C16: a standard or bleed document of a deck whose pairs all have both sides
\* consists of ceil(N/K) front pages, each directly followed by the back page of
\* the same sheet (1a, 1b, 2a, 2b, ...); with N = K it is one front and one back
\* page whose grid has no padding cell.
C16_FrontBackAlternate ==
    \A d \in DOMAIN docs :
        (/\ IsStandard(docs[d].layout) \/ IsBleed(docs[d].layout)
         /\ docs[d].include_back
         /\ docs[d].per_page >= 1
         /\ BothSides(docs[d].pairs))
        => AlternatingSheets(docs[d])

\* nine Poker cards with both sides on a 3x3 page: pages 1a and 1b
C16_Witness ==
    /\ Len(docs) = 1
    /\ current_format.name = "Poker"
    /\ docs[1].layout = "standard"
    /\ docs[1].per_page = 9
    /\ Len(docs[1].pairs) = 9 /\ BothSides(docs[1].pairs)
    /\ docs[1].include_back
    /\ Len(docs[1].pages) = 2

\* document D: ten front-only cards, standard layout, page capacity 3 x 3
TenFrontOnly(D) ==
    /\ IsStandard(D.layout)
    /\ D.per_page = 9
    /\ Len(D.pairs) = 10
    /\ \A i \in DOMAIN D.pairs : Exists(D.pairs[i].a) /\ ~Exists(D.pairs[i].b)

FrontSheets(D) == { i \in DOMAIN D.pages : D.pages[i].side = "a" }
BackSheets(D) == { i \in DOMAIN D.pages : D.pages[i].side = "b" }

\* C17 as stated: ten front-only cards on 3x3 pages give 4 front sheets and no
\* back sheet.
C17_FourFrontSheets ==
    \A d \in DOMAIN docs :
        TenFrontOnly(docs[d]) =>
            /\ Cardinality(FrontSheets(docs[d])) = 4
            /\ BackSheets(docs[d]) = {}

\* C17, amended: ten front-only cards on 3x3 pages give 2 front sheets (nine
\* cards, then one) and no back sheet.
C17_TwoFrontSheets ==
    \A d \in DOMAIN docs :
        TenFrontOnly(docs[d]) =>
            /\ Cardinality(FrontSheets(docs[d])) = 2
            /\ BackSheets(docs[d]) = {}
            /\ Len(docs[d].pages) = 2
            /\ Len(docs[d].pages[1].group) = 9
            /\ Len(docs[d].pages[2].group) = 1

\* the Poker deck of ten fronts on A4, generate_pdf called with back pages allowed
C17_Witness ==
    /\ Len(docs) = 1
    /\ TenFrontOnly(docs[1])
    /\ current_format.name = "Poker"
    /\ docs[1].pagesize = A4
    /\ docs[1].include_back

-----------------------------------------------------------------------------
(* Card format and configuration file                                         *)

\* main has applied the chosen card format
FormatApplied == pc \notin {"start", "format"}

\* px is mm / 25.4 * 300 rounded to the nearest integer (a tie goes to the even
\* one); mmk / 254 is that quotient in the model's units
IsRoundedPx(px, mmk) ==
    \/ 2 * Abs(254 * px - mmk) < 254
    \/ (2 * Abs(254 * px - mmk) = 254 /\ px % 2 = 0)

\* C18: after apply_card_format the inner pixel size is round(mm / 25.4 * 300)
\* on each axis; for Poker the inner size is 750 x 1050 and the bleed size
\* 825 x 1125.
C18_InnerPxRounded ==
    FormatApplied =>
        /\ IsRoundedPx(INNER_W_PX, current_format.w_mmk)
        /\ IsRoundedPx(INNER_H_PX, current_format.h_mmk)
        /\ (current_format.name = "Poker" =>
               /\ << INNER_W_PX, INNER_H_PX >> = << 750, 1050 >>
               /\ << BLEED_W_PX, BLEED_H_PX >> = << 825, 1125 >>)

\* Poker has been applied by main
C18_Witness ==
    /\ pc = "pairs"
    /\ current_format.id = 1
    /\ current_format.w_mmk = Mmk(635) /\ current_format.h_mmk = Mmk(889)
    /\ INNER_W_PX = 750 /\ BLEED_H_PX = 1125

\* what pdfConfig.txt asks for, as its template documents the keys
ConfigFormatId ==
    LET v == Get(cfg.dict, "CARD_FORMAT", "1")
    IN  IF v = "3" THEN 3
        ELSE IF v = "6" /\ Len(CARD_FORMATS) = 6 THEN 6
        ELSE 1

ConfigLayouts ==
    LET v == Get(cfg.dict, "LAYOUT", "All")
    IN  CASE v = "Standard" -> <<"standard">>
          [] v = "bleed" -> <<"bleed">>
          [] v = "GUTTERFOLD" -> <<"gutterfold">>
          [] OTHER -> <<"standard", "bleed", "gutterfold">>

ConfigPaper ==
    LET v == Get(cfg.dict, "PAPER", "Both")
    IN  CASE v = "A4" -> <<"_A4">>
          [] v = "letter" -> <<"_Letter">>
          [] OTHER -> <<"_A4", "_Letter">>

ConfigQuality ==
    LET v == Get(cfg.dict, "QUALITY", "High")
    IN  CASE v = "Low" -> "low"
          [] v = "lossless" -> "lossless"
          [] v = "Medium" -> "medium"
          [] OTHER -> "high"

\* the values main holds are those of pdfConfig.txt
ValuesFromConfig ==
    /\ current_format.id = ConfigFormatId
    /\ (pc = "pairs" =>
           /\ layout_keys = ConfigLayouts
           /\ [ i \in DOMAIN size_modes |-> size_modes[i].suffix ] = ConfigPaper)
    /\ ui.quality_key = ConfigQuality
    /\ (generation_dir =>
           /\ ("BOTTOM_TEXT" \notin DOMAIN cfg.dict => ui.copyright_name = "None")
           /\ ui.version_str = Get(cfg.dict, "VERSION", "")
           /\ (Get(cfg.dict, "OUTPUT_NAME", "cards") = "cards" => ui.out_base = "cards"))

\* C19: whenever pdfConfig.txt is present in the card folder, main calls none of
\* the card-format, layout, paper-size, quality, bottom-text, version and
\* output-name prompts and holds the values of the file, with the documented
\* defaults for missing or invalid values.
C19_ConfigFileSkipsPrompts ==
    (FormatApplied /\ cfg.present) =>
        /\ ui.prompts = {}
        /\ ValuesFromConfig

-----------------------------------------------------------------------------
(* Outer-bleed edges of place_images_grid_inner                               *)

\* some cell of the row holds an image
RowOccupied(row) == \E d \in sheet.draws : d.row = row

\* amount A on the edge when the condition holds, 0 otherwise
KeepIs(keep, A, cond) == keep = (IF cond THEN A ELSE 0)

\* C20: on a sheet drawn by place_images_grid_inner with amount A, every occupied
\* cell has keep_top = A exactly when no row above it is occupied, keep_bottom = A
\* exactly when no row below it is occupied or the cell directly below it is
\* empty, keep_left / keep_right = A exactly when no cell to its left / right in
\* its own row is occupied, and 0 otherwise; a sheet with a single occupied cell
\* gives that cell A on all four edges, on a front and on a mirrored back.
C20_KeepEdgesExact ==
    (Placed /\ sheet.fn = "place_images_grid_inner") =>
        /\ \A d \in sheet.draws :
              /\ KeepIs(d.keep_top, sheet.keep, \A r \in 0..(d.row - 1) : ~RowOccupied(r))
              /\ KeepIs(d.keep_bottom, sheet.keep,
                        \/ \A r \in (d.row + 1)..(sheet.rows - 1) : ~RowOccupied(r)
                        \/ ~Occupied(d.row + 1, d.col))
              /\ KeepIs(d.keep_left, sheet.keep, \A c \in 0..(d.col - 1) : ~Occupied(d.row, c))
              /\ KeepIs(d.keep_right, sheet.keep,
                        \A c \in (d.col + 1)..(sheet.cols - 1) : ~Occupied(d.row, c))
        /\ (Cardinality(sheet.draws) = 1 =>
               \A d \in sheet.draws :
                   /\ d.keep_top = sheet.keep /\ d.keep_bottom = sheet.keep
                   /\ d.keep_left = sheet.keep /\ d.keep_right = sheet.keep)

\* a 3 x 3 back page with amount 15 whose only image is list index 0, drawn
\* mirrored in the top right cell with 15 on all four edges
C20_Witness ==
    /\ sheet.fn = "place_images_grid_inner"
    /\ sheet.is_back /\ sheet.keep = 15 /\ sheet.cols = 3 /\ sheet.rows = 3
    /\ Cardinality(sheet.draws) = 1
    /\ \E d \in sheet.draws :
          /\ d.idx = 0 /\ d.row = 0 /\ d.col = 2
          /\ d.keep_top = 15 /\ d.keep_bottom = 15 /\ d.keep_left = 15 /\ d.keep_right = 15

-----------------------------------------------------------------------------
(* Gutterfold: choice of the page orientation, then generate_pdf on that page *)

\* the paper sizes main hands over, and pages that are wide already
OrientBases == { A4, letter, landscape(A4), landscape(letter) }

\* one pass of main's loop for the gutterfold layout: the orientation is chosen,
\* generate_pdf is called on the chosen page
ChooseOrientationAndGenerate ==
    /\ plan = NoPlan
    /\ \E base \in OrientBases, prs \in { Deck(n, 1..MaxCards, 0) : n \in 1..MaxCards } :
          LET chosen == choose_gutterfold_orientation(base)
              r == generate_pdf("gutterfold", chosen, prs, TRUE, 0)
          IN  /\ plan' = [ fn |-> "choose_gutterfold_orientation", base |-> base, chosen |-> chosen ]
              /\ IF r.raised.kind # "none"
                 THEN /\ raised' = [r.raised EXCEPT !.layout = "gutterfold"]
                      /\ UNCHANGED docs
                 ELSE /\ docs' = << [ layout |-> "gutterfold", suffix |-> "",
                                      pagesize |-> chosen, pairs |-> prs, include_back |-> TRUE,
                                      per_page |-> r.per_page, pages |-> r.pages ] >>
                      /\ UNCHANGED raised
    /\ UNCHANGED << cfg, ui, PIL, CUTMARK_LEN_PT_STD, CARD_FORMATS, geomVars, cacheVars, sheet, pc, layout_keys,
                    size_modes, pairs, include_back_pages, pairs_for_2x3, generation_dir,
                    li, si >>

NextOrient == ChooseOrientationAndGenerate

SpecOrient == InitPages /\ [][NextOrient]_vars

\* available height of a page for two rows and the fold gutter, and the height needed
OrientAvail(ps) == ps[2] - MARGINS_PT.top - MARGINS_PT.bottom - RESERVE_TOP_PT - BOTTOM_RESERVED_PT
OrientNeed == 2 * POKER_H_PT + GF_FOLD_GUTTER_PT
OrientWide(ps) == << Max(ps[1], ps[2]), Min(ps[1], ps[2]) >>

\* C21: the chosen page is the landscape page when its available height reaches
\* 2 x card height + fold gutter, else the given page when that one reaches it,
\* else the one of the two with the larger available height; and when one of
\* the two reaches it, generate_pdf on the chosen page saves the document
\* instead of raising the space error.
C21_OrientationChoice ==
    (plan.fn = "choose_gutterfold_orientation") =>
        LET ls == OrientWide(plan.base)
            fits_ls == OrientAvail(ls) >= OrientNeed
            fits_base == OrientAvail(plan.base) >= OrientNeed
        IN  /\ (fits_ls => plan.chosen = ls)
            /\ ((~fits_ls /\ fits_base) => plan.chosen = plan.base)
            /\ ((~fits_ls /\ ~fits_base) =>
                   /\ plan.chosen \in {ls, plan.base}
                   /\ OrientAvail(plan.chosen) = Max(OrientAvail(ls), OrientAvail(plan.base)))
            /\ ((fits_ls \/ fits_base) =>
                   /\ raised.kind = "none"
                   /\ Len(docs) = 1 /\ docs[1].pagesize = plan.chosen)

\* a card too tall for the landscape page but not for the portrait page: the
\* portrait page is chosen and the document is saved
C21_Witness ==
    /\ plan.fn = "choose_gutterfold_orientation"
    /\ plan.base = A4
    /\ OrientAvail(landscape(A4)) < OrientNeed
    /\ OrientAvail(A4) >= OrientNeed
    /\ plan.chosen = A4
    /\ Len(docs) = 1

-----------------------------------------------------------------------------
(* Grid layout planner: counts, fallback, containment                         *)

PlannedCounts == plan.fn = "compute_max_grid_counts"

\* n = max(1, floor(a / b)) for b > 0, without division
FloorAtLeastOne(n, a, b) ==
    \/ (n = 1 /\ a < 2 * b)
    \/ (n >= 2 /\ n * b <= a /\ a < (n + 1) * b)

\* C22: when the available width and height are positive, compute_max_grid_counts
\* returns columns = max(1, floor(available width / cell width)) and rows =
\* max(1, floor((available height - extra) / cell height)), the available area
\* being the page minus the margins and the reserves.
C22_GridCounts ==
    (PlannedCounts /\ PlanAvailW > 0 /\ PlanAvailH > 0) =>
        /\ FloorAtLeastOne(plan.cols, PlanAvailW, plan.box_w)
        /\ FloorAtLeastOne(plan.rows, PlanAvailH - plan.extra, plan.box_h)
        /\ plan.grid_w = plan.cols * plan.box_w
        /\ plan.grid_h = plan.rows * plan.box_h + plan.extra

\* a page with positive available area on which no card fits next to the fold
\* gutter allowance: both counts are raised to 1
C22_Witness ==
    /\ PlannedCounts
    /\ PlanAvailW > 0 /\ PlanAvailH > 0
    /\ PlanAvailW < plan.box_w
    /\ PlanAvailH - plan.extra < plan.box_h
    /\ plan.extra > 0
    /\ plan.cols = 1 /\ plan.rows = 1

\* C23: when the available width or height is not positive, the result is a
\* 1 x 1 grid with its origin at (left margin + left reserve, bottom margin +
\* bottom reserve) and the size of one cell plus the extra vertical allowance.
C23_DegenerateGrid ==
    (PlannedCounts /\ (PlanAvailW <= 0 \/ PlanAvailH <= 0)) =>
        /\ plan.cols = 1 /\ plan.rows = 1
        /\ plan.x0 = PlanAvailX
        /\ plan.y0 = PlanAvailY
        /\ plan.grid_w = plan.box_w
        /\ plan.grid_h = plan.box_h + plan.extra
        /\ plan.grid_top_y = plan.y0 + plan.grid_h

\* a page whose available height is not positive, planned with a left reserve
\* and an extra allowance
C23_Witness ==
    /\ PlannedCounts
    /\ PlanAvailH <= 0 /\ PlanAvailW > 0
    /\ plan.left_res > 0 /\ plan.extra > 0
    /\ plan.cols = 1 /\ plan.rows = 1
    /\ plan.x0 = plan.margins.left + plan.left_res

\* the planned grid lies inside the area left by the margins and the reserves
GridInsideAvailable ==
    /\ plan.x0 >= PlanAvailX
    /\ plan.x0 + plan.grid_w <= PlanAvailX + PlanAvailW
    /\ plan.y0 >= PlanAvailY
    /\ plan.y0 + plan.grid_h <= PlanAvailY + PlanAvailH

\* one cell, with the extra vertical allowance, fits into the available area
OneCellFits == plan.box_w <= PlanAvailW /\ plan.box_h + plan.extra <= PlanAvailH

\* C27 as claimed: whenever the available width and height are positive, the
\* grid planned by compute_max_grid_counts lies entirely inside the available
\* area, for every cell size.
C27_GridInsideAlways ==
    (PlannedCounts /\ PlanAvailW > 0 /\ PlanAvailH > 0) => GridInsideAvailable

\* C27, amended: whenever the available width and height are positive and one
\* cell fits into the available area, the grid planned by
\* compute_max_grid_counts lies entirely inside the available area.
C27_GridInsideWhenCellFits ==
    (PlannedCounts /\ PlanAvailW > 0 /\ PlanAvailH > 0 /\ OneCellFits) => GridInsideAvailable

\* a custom card format planned with a left and a right reserve and the extra
\* allowance: several cells, the grid strictly inside on the right
C27_Witness ==
    /\ PlannedCounts
    /\ current_format.id = 6
    /\ OneCellFits
    /\ plan.left_res > 0 /\ plan.right_res > 0 /\ plan.extra > 0
    /\ plan.cols * plan.rows >= 2
    /\ plan.x0 + plan.grid_w < PlanAvailX + PlanAvailW

-----------------------------------------------------------------------------
(* C24: the cut marks of a bleed grid                                         *)

\* one page of the bleed branch of generate_pdf
NextMarks ==
    PlaceImagesBleedGrid

\* each built-in format or the INI custom format of 1250 x 1500 px applied
InitMarks ==
    /\ PIL = TRUE
    /\ CARD_FORMATS = Append(BUILTIN_FORMATS, load_custom_format_from_config(1250, 1500))
    /\ \E i \in DOMAIN CARD_FORMATS : GeometryIs(apply_card_format(CARD_FORMATS[i]))
    /\ InitMain
    /\ InitCacheIdle
    /\ InitGridIdle

SpecMarks == InitMarks /\ [][NextMarks]_vars

BleedPlaced == sheet.fn = "place_images_bleed_grid"

\* C24: on a bleed page the vertical cut lines of column j are at
\* x0 + j*box_w + (37 / BLEED_W_PX)*box_w and x0 + j*box_w + ((37 + INNER_W_PX) /
\* BLEED_W_PX)*box_w, the horizontal cut lines of row i at y0 + i*box_h +
\* (38 / BLEED_H_PX)*box_h and y0 + i*box_h + ((38 + INNER_H_PX) / BLEED_H_PX)*box_h
\* (all times BLEED_W_PX / BLEED_H_PX here); the two cut lines of a cell are the
\* trim width (height) apart, to the resolution of the box size (one even unit);
\* and every mark segment lies outside the grid rectangle.
C24_BleedCutLines ==
    BleedPlaced =>
        LET mk == sheet.marks
            gx0 == sheet.x0
            gy0 == sheet.y0
            gx1 == sheet.x0 + sheet.cols * sheet.box_w
            gy1 == sheet.y0 + sheet.rows * sheet.box_h
        IN  /\ Len(mk.x_cuts) = 2 * sheet.cols
            /\ Len(mk.y_cuts) = 2 * sheet.rows
            /\ \A j \in 0..(sheet.cols - 1) :
                 /\ mk.x_cuts[2 * j + 1] =
                        (gx0 + j * sheet.box_w) * BLEED_W_PX + 37 * sheet.box_w
                 /\ mk.x_cuts[2 * j + 2] =
                        (gx0 + j * sheet.box_w) * BLEED_W_PX + (37 + INNER_W_PX) * sheet.box_w
                 /\ Abs((mk.x_cuts[2 * j + 2] - mk.x_cuts[2 * j + 1]) - POKER_W_PT * BLEED_W_PX)
                        < 2 * BLEED_W_PX
            /\ \A i \in 0..(sheet.rows - 1) :
                 /\ mk.y_cuts[2 * i + 1] =
                        (gy0 + i * sheet.box_h) * BLEED_H_PX + 38 * sheet.box_h
                 /\ mk.y_cuts[2 * i + 2] =
                        (gy0 + i * sheet.box_h) * BLEED_H_PX + (38 + INNER_H_PX) * sheet.box_h
                 /\ Abs((mk.y_cuts[2 * i + 2] - mk.y_cuts[2 * i + 1]) - POKER_H_PT * BLEED_H_PX)
                        < 2 * BLEED_H_PX
            /\ Cardinality(mk.lines) = 4 * (sheet.cols + sheet.rows)
            /\ \A l \in mk.lines :
                 /\ l.lo < l.hi
                 /\ l.dir = "v" => (l.hi <= gy0 \/ l.lo >= gy1)
                 /\ l.dir = "h" => (l.hi <= gx0 \/ l.lo >= gx1)

\* a back page of 3 x 2 bleed boxes of a format other than Poker, with marks on
\* all four sides of the grid
C24_Witness ==
    /\ BleedPlaced
    /\ sheet.cols = 3 /\ sheet.rows = 2 /\ sheet.is_back
    /\ INNER_W_PX # 750
    /\ \E a, b, c, d \in sheet.marks.lines :
         /\ a.dir = "v" /\ a.hi = sheet.y0
         /\ b.dir = "v" /\ b.lo = sheet.y0 + 2 * sheet.box_h
         /\ c.dir = "h" /\ c.hi = sheet.x0
         /\ d.dir = "h" /\ d.lo = sheet.x0 + 3 * sheet.box_w

-----------------------------------------------------------------------------
(* C25: fronts above the fold, backs below it                                 *)

\* the Poker format applied, with or without the image library
InitFoldPage ==
    /\ PIL \in BOOLEAN
    /\ CARD_FORMATS = BUILTIN_FORMATS
    /\ GeometryIs(apply_card_format(BUILTIN_FORMATS[1]))
    /\ InitMain
    /\ InitCacheIdle
    /\ InitGridIdle

NextFoldPage ==
    PlaceImagesGutterfoldGrid

SpecFoldPage == InitFoldPage /\ [][NextFoldPage]_vars

FoldPlaced == sheet.fn = "place_images_gutterfold_grid"

\* the draws of one side on the gutterfold page
FoldDraws(side) == { d \in sheet.draws : d.side = side }

\* C25: on a gutterfold page, for every column j, the front of pair j is drawn
\* unrotated in column j of the top row (and nothing else is), the back of pair j
\* rotated by 180 degrees in the same column j of the bottom row, and the bottom
\* edge of the top row is exactly the fold gutter above the top edge of the
\* bottom row.
C25_GutterfoldFrontOverBack ==
    FoldPlaced =>
        LET y_bottom == sheet.y0
            y_top == sheet.y0 + sheet.box_h + GF_FOLD_GUTTER_PT
        IN  /\ \A j \in 0..(sheet.cols - 1) :
                 LET has(side) == j < Len(sheet.img_paths) /\ Exists(sheet.img_paths[j + 1][side])
                     at(side) == { d \in FoldDraws(side) : d.x = sheet.x0 + j * sheet.box_w }
                 IN  /\ Cardinality(at("a")) = IF has("a") THEN 1 ELSE 0
                     /\ Cardinality(at("b")) = IF has("b") THEN 1 ELSE 0
                     /\ \A d \in at("a") :
                          /\ d.img = sheet.img_paths[j + 1].a /\ d.col = j
                          /\ d.y = y_top /\ d.rotate = 0
                     /\ \A d \in at("b") :
                          /\ d.img = sheet.img_paths[j + 1].b /\ d.col = j
                          /\ d.y = y_bottom /\ d.rotate = 180
            /\ \A d \in sheet.draws :
                 \E j \in 0..(sheet.cols - 1) : d.x = sheet.x0 + j * sheet.box_w

\* a page of four columns on which the first pair has both sides and the last
\* only a back, drawn with outer bleed
C25_Witness ==
    /\ FoldPlaced
    /\ sheet.cols = 4 /\ Len(sheet.img_paths) = 4 /\ sheet.keep > 0
    /\ Exists(sheet.img_paths[1].a) /\ Exists(sheet.img_paths[1].b)
    /\ ~Exists(sheet.img_paths[4].a) /\ Exists(sheet.img_paths[4].b)
    /\ \E d \in FoldDraws("b") : d.col = 3 /\ d.rotate = 180
    /\ \E d \in FoldDraws("a") : d.col = 0 /\ d.rotate = 0

-----------------------------------------------------------------------------
(* C26: the bottom reserve against the cut-mark length of the INI             *)

\* prompt_language_if_needed has returned: the INI cut-mark settings are loaded
AfterIniLoad == pc # "start"

\* C26: in every state after the INI cut-mark settings have been loaded,
\* BOTTOM_RESERVED_PT is at least BOTTOM_Y + 5 pt and at least the standard
\* cut-mark length CUTMARK_LEN_PT_STD.
C26_BottomReserveCoversMarks ==
    AfterIniLoad =>
        /\ BOTTOM_RESERVED_PT >= BOTTOM_Y + Pt(5)
        /\ BOTTOM_RESERVED_PT >= CUTMARK_LEN_PT_STD

-----------------------------------------------------------------------------
(* C28: the part of a bleed-sized source that the outer-bleed raster shows    *)

\* the observed call of preprocess_card_image_outer_bleed cropped a source of
\* exactly BLEED_W_PX x BLEED_H_PX with amounts not above the border widths
CroppedExactBleed ==
    /\ last_call.fn = "preprocess_card_image_outer_bleed"
    /\ last_call.stage = "saved"
    /\ last_call.img.w = BLEED_W_PX /\ last_call.img.h = BLEED_H_PX
    /\ last_call.box.l <= BLEED_LEFT_TOP_PX /\ last_call.box.t <= BLEED_LEFT_TOP_PX
    /\ last_call.box.r <= BLEED_RIGHT_BOTTOM_PX /\ last_call.box.b <= BLEED_RIGHT_BOTTOM_PX

\* the trim region of the source: 37 px from its left / top edge, 38 px from its
\* right / bottom edge
TrimRegion ==
    Box(BLEED_LEFT_TOP_PX, BLEED_LEFT_TOP_PX,
        BLEED_W_PX - BLEED_RIGHT_BOTTOM_PX, BLEED_H_PX - BLEED_RIGHT_BOTTOM_PX)

\* C28: for a source of exactly BLEED_W_PX x BLEED_H_PX and amounts not above the
\* border widths, the raster saved by preprocess_card_image_outer_bleed shows
\* exactly the trim region of the source extended by the kept amount at each
\* edge, for rotate_degrees = 0 and for rotate_degrees = 180, where the left /
\* top / right / bottom edge of the rotated image is the right / bottom / left /
\* top edge of the source.
C28_OuterBleedKeepsTrimRegion ==
    CroppedExactBleed =>
        LET k == last_call.box
        IN  last_call.region =
                IF last_call.key[4] = RotTag(0)
                THEN Box(TrimRegion.l - k.l, TrimRegion.t - k.t,
                         TrimRegion.r + k.r, TrimRegion.b + k.b)
                ELSE Box(TrimRegion.l - k.r, TrimRegion.t - k.b,
                         TrimRegion.r + k.l, TrimRegion.b + k.t)

-----------------------------------------------------------------------------
(* C29: one prepared file per cache key                                       *)

\* the keys under which preprocess_card_image_for_pdf has returned a file of TMP_DIR
PreparedKeys ==
    { k \in DOMAIN first_result : k[4] \in {"crop", "nocrop"} /\ first_result[k].path.dir = "tmp" }

-----------------------------------------------------------------------------
(* C30: the cards of a bleed document                                         *)

\* the bleed-layout documents saved so far
BleedDocs == { i \in DOMAIN docs : IsBleed(docs[i].layout) }

\* C30: whenever main has generated a bleed-layout document, the pair list laid
\* out in it is the full deck in deck order, whatever analyze_card_images
\* returned, also without the image library.
C30_BleedDocumentHoldsFullDeck ==
    \A i \in BleedDocs : docs[i].pairs = pairs

=============================================================================
